---- MODULE Spec2Model ----
(***************************************************************************)
(* A model of the data-salvage program (toma4423/salvage_program):         *)
(*   src/src/file_operations/file_handler.py   FileHandler                 *)
(*   src/src/disk_operations/disk_manager.py   DiskManager                 *)
(*   src/src/main.py                           Application                 *)
(*   src/src/gui/main_window.py                MainWindow                  *)
(*   src/src/utils/logger.py                   Logger                      *)
(*                                                                         *)
(* Paths are sequences of components ("/dev/sda" is <<"", "dev", "sda">>), *)
(* file contents are sequences of bytes, external tools (mount, umount,    *)
(* fsck.ext4, ntfsfix, lsblk, the copy system call) are nondeterministic   *)
(* inputs of the actions.  A Python exception is the field exc of an       *)
(* operation's result: "none" when the call returned.                      *)
(***************************************************************************)
EXTENDS Integers, Sequences, FiniteSets, TLC

\* ------------------------------------------------------------------ bounds
MaxLen == 3
ChunkSize == 2
MaxFiles == 2
MaxDevices == 2
MaxEvents == 3
MaxSmartLines == 2

\* ------------------------------------------------------------- file system
Bytes == {0, 1}
Contents == UNION {[1..n -> Bytes] : n \in 0..MaxLen}

\* The directories that hold files: the mount points of two disks and a
\* destination directory; a file's path is its directory and its name.
SrcDirs == {<<"", "mnt", "sda">>, <<"", "mnt", "sdb">>}
DestDirs == {<<"", "out">>}
Dirs == SrcDirs \cup DestDirs
Names == {"a.txt", "b.png"}
AllPaths == {Append(d, n) : d \in Dirs, n \in Names}
SrcPaths ==
    {<<"", "mnt", "sda", "a.txt">>, <<"", "mnt", "sda", "b.png">>,
     <<"", "mnt", "sdb", "a.txt">>}

NoFile == [exists |-> FALSE, content |-> <<>>, readable |-> FALSE]
FileStates ==
    {NoFile} \cup [exists : {TRUE}, content : Contents, readable : BOOLEAN]

\* What the source files hold, when they exist
FixedContent(p) ==
    CASE p = <<"", "mnt", "sda", "a.txt">> -> <<0>>
      [] p = <<"", "mnt", "sda", "b.png">> -> <<>>
      [] OTHER -> <<1>>

\* The subsets of S with at most one element
AtMostOne(S) == {{}} \cup {{x} : x \in S}

VARIABLES
    fs,        \* the file system: path -> [exists, content, readable]
    dirs,      \* the directories that exist
    fh_log,    \* FileHandler.logger.logs
    vc,        \* the last FileHandler.verify_copy call and its result
    fh,        \* the last other FileHandler call and its result
    cf,        \* the last Application.copy_files run
    app,       \* the last other Application call and its result
    lg,        \* a Logger of its own: its logs, the calls made on it, its file
    app_log,   \* Application.logger.logs
    dm_log,    \* DiskManager.logger.logs
    dm,        \* the last DiskManager call and its result
    lsblk,     \* the block-device table the listing tool prints
    win,       \* MainWindow: window, current_disk, selected_files, file tree
    pc,        \* Application.run: "start", "loop", "closed", "returned"
    hist       \* what the event loop has done so far

vars == <<fs, dirs, fh_log, vc, fh, cf, app, lg, app_log, dm_log, dm, lsblk, win, pc, hist>>

\* ------------------------------------------------------------------ Logger
Entry(level, msg) == [level |-> level, msg |-> msg]

log_info(logs, msg) == Append(logs, Entry("INFO", msg))

log_error(logs, msg) == Append(logs, Entry("ERROR", msg))

log_warning(logs, msg) == Append(logs, Entry("WARNING", msg))

RECURSIVE log_errors(_, _)
log_errors(logs, msgs) ==
    IF msgs = <<>> THEN logs
    ELSE log_errors(log_error(logs, Head(msgs)), Tail(msgs))

\* ------------------------------------------------------------- os.path, os
exists(f, p) == f[p].exists

getsize(f, p) == Len(f[p].content)

basename(p) == p[Len(p)]

dirname(p) == SubSeq(p, 1, Len(p) - 1)

join(d, name) == Append(d, name)

\* ------------------------------------------------- FileHandler.verify_copy
\* hashlib.md5: the digest is a fold of update() over the bytes fed so far.
md5_update(h, b) == (h * 31 + b + 1) % 65521

RECURSIVE md5_update_chunk(_, _)
md5_update_chunk(h, chunk) ==
    IF chunk = <<>> THEN h
    ELSE md5_update_chunk(md5_update(h, Head(chunk)), Tail(chunk))

Min(a, b) == IF a < b THEN a ELSE b

\* f.read(n): the next at most n bytes from position pos (1-based)
read(content, pos, n) == SubSeq(content, pos, Min(Len(content), pos + n - 1))

\* for chunk in iter(lambda: f.read(1024 * 1024), b""): md5_hash.update(chunk)
RECURSIVE md5_stream(_, _, _)
md5_stream(content, pos, h) ==
    LET chunk == read(content, pos, ChunkSize)
    IN  IF chunk = <<>> THEN h
        ELSE md5_stream(content, pos + Len(chunk), md5_update_chunk(h, chunk))

\* calculate_md5(file_path): open() raises when the file cannot be read
calculate_md5(f, p) ==
    IF ~f[p].readable THEN [exc |-> "OSError", hash |-> 0]
    ELSE [exc |-> "none", hash |-> md5_stream(f[p].content, 1, 7)]

\* the try block of verify_copy: what it returns or raises, and what it logs
verify_copy_NoHash(f, logs, source, destination) ==
    LET l0 == log_info(logs, "verifying")
    IN  IF ~exists(f, source) \/ ~exists(f, destination)
        THEN [exc |-> "FileNotFoundError", ret |-> FALSE, logs |-> l0]
        ELSE IF getsize(f, source) # getsize(f, destination)
        THEN [exc |-> "none", ret |-> FALSE,
              logs |-> log_errors(l0, <<"size mismatch", "src size", "dst size">>)]
        ELSE [exc |-> "none", ret |-> TRUE, logs |-> log_info(l0, "verified")]

verify_copy_try(f, logs, source, destination) ==
    LET l0 == log_info(logs, "verifying")
    IN  IF ~exists(f, source)
        THEN [exc |-> "FileNotFoundError", ret |-> FALSE, logs |-> l0]
        ELSE IF ~exists(f, destination)
        THEN [exc |-> "FileNotFoundError", ret |-> FALSE, logs |-> l0]
        ELSE IF getsize(f, source) # getsize(f, destination)
        THEN [exc |-> "none", ret |-> FALSE,
              logs |-> log_errors(l0, <<"size mismatch", "src size", "dst size">>)]
        ELSE LET source_hash == calculate_md5(f, source)
                 dest_hash == calculate_md5(f, destination)
             IN  IF source_hash.exc # "none"
                 THEN [exc |-> source_hash.exc, ret |-> FALSE, logs |-> l0]
                 ELSE IF dest_hash.exc # "none"
                 THEN [exc |-> dest_hash.exc, ret |-> FALSE, logs |-> l0]
                 ELSE IF source_hash.hash # dest_hash.hash
                 THEN [exc |-> "none", ret |-> FALSE,
                       logs |-> log_errors(l0, <<"hash mismatch", "src hash", "dst hash">>)]
                 ELSE [exc |-> "none", ret |-> TRUE,
                       logs |-> log_info(l0, "verified")]

\* verify_copy: the try block, and except Exception: log FILE_003, return False
verify_copy(f, logs, source, destination) ==
    LET r == verify_copy_try(f, logs, source, destination)
    IN  IF r.exc # "none"
        THEN [exc |-> "none", ret |-> FALSE,
              logs |-> log_errors(r.logs, <<"verify failed", "FILE_003", "src", "dst">>)]
        ELSE r

\* --------------------------------------------------------------- File, str
\* class File (attributes is always None); a str is what a Tree element
\* reports for a selected row: the row's key, which is the file's path
File(path, size) ==
    [class |-> "File", path |-> path, size |-> size, status |-> "normal",
     is_corrupted |-> FALSE]

TreeKey(path) ==
    [class |-> "str", path |-> path, size |-> 0, status |-> "",
     is_corrupted |-> FALSE]

\* ------------------------------------------------------------ shutil.copy2
\* What the copy of one file can do: "ok" writes the bytes read, "ioerror"
\* fails while writing (disk full, medium error) and leaves what was written,
\* "flip" returns normally but the bytes read from the failing medium differ
\* from what a later read returns.
CopyOutcomes == {"ok", "ioerror", "flip"}

Flip(content) ==
    IF content = <<>> THEN content
    ELSE [content EXCEPT ![Len(content)] = 1 - content[Len(content)]]

Partial(content) ==
    IF content = <<>> THEN content ELSE SubSeq(content, 1, Len(content) - 1)

Written(content) == [exists |-> TRUE, content |-> content, readable |-> TRUE]

copy2(f, d, src, dst, outcome) ==
    IF ~exists(f, src) THEN [exc |-> "FileNotFoundError", fs |-> f]
    ELSE IF src = dst THEN [exc |-> "SameFileError", fs |-> f]
    ELSE IF ~f[src].readable THEN [exc |-> "PermissionError", fs |-> f]
    ELSE IF dirname(dst) \notin d THEN [exc |-> "FileNotFoundError", fs |-> f]
    ELSE IF outcome = "ioerror"
    THEN [exc |-> "OSError",
          fs |-> [f EXCEPT ![dst] = Written(Partial(f[src].content))]]
    ELSE IF outcome = "flip"
    THEN [exc |-> "none", fs |-> [f EXCEPT ![dst] = Written(Flip(f[src].content))]]
    ELSE [exc |-> "none", fs |-> [f EXCEPT ![dst] = Written(f[src].content)]]

\* -------------------------------------------------- FileHandler.copy_files
\* for file in files: shutil.copy2(file.path, join(destination, basename))
\* tried counts the shutil.copy2 calls made, made those that returned.
\* A mutant of the loop that goes on with the next file after a failure:
RECURSIVE copy_files_try_KeepGoing(_, _, _, _, _)
copy_files_try_KeepGoing(f, d, files, destination, outcomes) ==
    IF files = <<>> THEN [exc |-> "none", fs |-> f, tried |-> 0, made |-> 0]
    ELSE IF Head(files).class # "File"
    THEN [exc |-> "AttributeError", fs |-> f, tried |-> 0, made |-> 0]
    ELSE LET file == Head(files)
             dest_path == join(destination, basename(file.path))
             c == copy2(f, d, file.path, dest_path, Head(outcomes))
             r == copy_files_try_KeepGoing(c.fs, d, Tail(files), destination,
                                           Tail(outcomes))
         IN  [exc |-> IF c.exc # "none" THEN c.exc ELSE r.exc, fs |-> r.fs,
              tried |-> r.tried + 1,
              made |-> r.made + (IF c.exc = "none" THEN 1 ELSE 0)]

RECURSIVE copy_files_try(_, _, _, _, _)
copy_files_try(f, d, files, destination, outcomes) ==
    IF files = <<>> THEN [exc |-> "none", fs |-> f, tried |-> 0, made |-> 0]
    ELSE IF Head(files).class # "File"
    THEN [exc |-> "AttributeError", fs |-> f, tried |-> 0, made |-> 0]
    ELSE LET file == Head(files)
             dest_path == join(destination, basename(file.path))
             c == copy2(f, d, file.path, dest_path, Head(outcomes))
         IN  IF c.exc # "none"
             THEN [exc |-> c.exc, fs |-> c.fs, tried |-> 1, made |-> 0]
             ELSE LET r == copy_files_try(c.fs, d, Tail(files), destination,
                                          Tail(outcomes))
                  IN  [r EXCEPT !.tried = @ + 1, !.made = @ + 1]

\* copy_files: the try block, and except Exception: four FILE_002 log lines,
\* return False.  The third line formats [file.path for file in files], which
\* raises AttributeError out of the handler when an element is not a File.
fh_copy_files(f, d, logs, files, destination, outcomes) ==
    LET r == copy_files_try(f, d, files, destination, outcomes)
    IN  IF r.exc = "none"
        THEN [exc |-> "none", ret |-> TRUE, fs |-> r.fs, tried |-> r.tried, made |-> r.made,
              logs |-> log_info(logs, "copy finished")]
        ELSE IF \E i \in 1..Len(files) : files[i].class # "File"
        THEN [exc |-> "AttributeError", ret |-> FALSE, fs |-> r.fs,
              tried |-> r.tried, made |-> r.made,
              logs |-> log_errors(logs, <<"copy failed", "FILE_002">>)]
        ELSE [exc |-> "none", ret |-> FALSE, fs |-> r.fs, tried |-> r.tried, made |-> r.made,
              logs |-> log_errors(logs, <<"copy failed", "FILE_002", "src", "dst">>)]

\* -------------------------------------------------- Application.copy_files
\* One record per call the application makes on its FileHandler, in order.
Call(op, src, dst, ret) == [op |-> op, src |-> src, dst |-> dst, ret |-> ret]

\* window.show_error(message)
show_error(S, msg) == [S EXCEPT !.shown = Append(@, msg)]

\* window.update_progress(value, message)
update_progress(S, value) == [S EXCEPT !.progress = Append(@, value)]

\* The body of the for loop for the i-th file: a mutant that verifies the
\* destination whether or not the copy succeeded
copy_one_VerifyAlways(S, d, file, destination, outcome, i, total_files) ==
    LET S1 == update_progress(S, (i * 100) \div total_files)
        dest_path == join(destination, basename(file.path))
        c == fh_copy_files(S1.fs, d, S1.fh_log, <<file>>, destination, <<outcome>>)
        S2 == [S1 EXCEPT !.fs = c.fs, !.fh_log = c.logs,
                         !.calls = Append(@, Call("copy_files", file.path, dest_path, c.ret))]
        v == verify_copy(S2.fs, S2.fh_log, file.path, dest_path)
        Sv == [S2 EXCEPT !.fh_log = v.logs,
                         !.calls = Append(@, Call("verify_copy", file.path, dest_path, v.ret))]
    IN  IF v.ret
        THEN [Sv EXCEPT !.app_log = log_info(@, "copied")]
        ELSE show_error([Sv EXCEPT !.app_log = log_error(@, "verify failed")],
                        "verify failed")

\* The body of the for loop for the i-th file (i counts from 1)
copy_one(S, d, file, destination, outcome, i, total_files) ==
    LET S1 == update_progress(S, (i * 100) \div total_files)
        dest_path == join(destination, basename(file.path))
        c == fh_copy_files(S1.fs, d, S1.fh_log, <<file>>, destination, <<outcome>>)
        S2 == [S1 EXCEPT !.fs = c.fs, !.fh_log = c.logs,
                         !.calls = Append(@, Call("copy_files", file.path, dest_path, c.ret))]
        v == verify_copy(S2.fs, S2.fh_log, file.path, dest_path)
        Sv == [S2 EXCEPT !.fh_log = v.logs,
                         !.calls = Append(@, Call("verify_copy", file.path, dest_path, v.ret))]
    IN  IF c.exc # "none" THEN [S1 EXCEPT !.fs = c.fs, !.fh_log = c.logs, !.exc = c.exc]
        ELSE IF c.ret
        THEN IF v.ret
             THEN [Sv EXCEPT !.app_log = log_info(@, "copied")]
             ELSE show_error([Sv EXCEPT !.app_log = log_error(@, "verify failed")],
                             "verify failed")
        ELSE show_error([S2 EXCEPT !.app_log = log_error(@, "copy failed")],
                        "copy failed")

\* for i, file in enumerate(files, 1): file.path of something that is no File
\* raises AttributeError, which leaves the loop, as does an exception out of
\* the body
RECURSIVE copy_loop(_, _, _, _, _, _)
copy_loop(S, d, files, destination, outcomes, i) ==
    IF i > Len(files) \/ S.exc # "none" THEN S
    ELSE IF files[i].class # "File" THEN [S EXCEPT !.exc = "AttributeError"]
    ELSE copy_loop(copy_one(S, d, files[i], destination, outcomes[i], i, Len(files)),
                   d, files, destination, outcomes, i + 1)

\* A mutant without the try block: the exception leaves copy_files
app_copy_files_NoTry(S, d, files, destination, outcomes) ==
    LET R == copy_loop(S, d, files, destination, outcomes, 1)
    IN  IF R.exc = "none"
        THEN [update_progress(R, 100) EXCEPT !.completed = TRUE]
        ELSE [R EXCEPT !.caught = R.exc]

\* Application.copy_files: the loop, the final progress report, and
\* except Exception: log and show the error.  caught is the exception the
\* handler caught.
app_copy_files(S, d, files, destination, outcomes) ==
    LET R == copy_loop(S, d, files, destination, outcomes, 1)
    IN  IF R.exc = "none"
        THEN [update_progress(R, 100) EXCEPT !.completed = TRUE]
        ELSE [show_error([R EXCEPT !.app_log = log_error(@, "copy error")],
                         "copy error") EXCEPT !.exc = "none", !.caught = R.exc]

\* The application's state a copy run starts from
CopyState(f, fhl, appl) ==
    [fs |-> f, fh_log |-> fhl, app_log |-> appl, calls |-> <<>>,
     progress |-> <<>>, shown |-> <<>>, completed |-> FALSE, exc |-> "none",
     caught |-> "none"]

\* ============================================================== DiskManager
\* ----------------------------------------------- the listing tool's table
\* One row of lsblk -J: a JSON object.  A key that is missing from the object
\* is Absent, a key whose value is JSON null is Null.  A size is a decimal
\* number (in tenths) followed by a unit letter.  A name is a sequence of
\* path components ("cciss/c0d0" has two).
Absent == "<absent>"
Null == "<null>"
None == "<None>"

Size(tenths, unit) == [tenths |-> tenths, unit |-> unit]

Row(name, size, fstype, mountpoint, health) ==
    [name |-> name, size |-> size, fstype |-> fstype,
     mountpoint |-> mountpoint, health |-> health]

Devices ==
    { Row(<<"sda">>, Size(100, "G"), "ext4", "/", "PASSED"),
      Row(<<"sdb">>, Size(5000, "G"), "ntfs", Absent, "FAILED"),
      Row(<<"sdc">>, Size(15, "T"), "ext4", Null, Absent),
      Row(<<"cciss", "c0d0">>, Size(5120, "M"), "exfat", Null, "PASSED"),
      Row(<<"sdd">>, Size(10, "K"), Null, Null, Null),
      Row(<<"sde">>, Size(0, "B"), Absent, Absent, Absent) }

RECURSIVE SeqsUpTo(_, _)
SeqsUpTo(S, n) ==
    IF n = 0 THEN {<<>>}
    ELSE LET shorter == SeqsUpTo(S, n - 1)
         IN  shorter \cup {Append(q, x) : q \in {t \in shorter : Len(t) = n - 1}, x \in S}

Tables == SeqsUpTo(Devices, MaxDevices)

\* ------------------------------------------------------- unbounded integers
\* A byte count is a number in base 1024, least significant digit first.
Base == 1024
NDigits == 6
Digits == 1..NDigits

\* n * 1024^k, for 0 <= n < 1024^2
BigOf(n, k) ==
    [i \in Digits |-> IF i = k + 1 THEN n % Base
                      ELSE IF i = k + 2 THEN n \div Base ELSE 0]

\* the remainder of (the digits i.. of d) divided by m
RECURSIVE RemFrom(_, _, _)
RemFrom(d, m, i) ==
    IF i > NDigits THEN 0 ELSE (RemFrom(d, m, i + 1) * Base + d[i]) % m

\* floor(d / m) by long division, for 0 < m < 1024
BigDiv(d, m) ==
    [i \in Digits |-> (RemFrom(d, m, i + 1) * Base + d[i]) \div m]

\* the carry of d * m into digit i
RECURSIVE CarryInto(_, _, _)
CarryInto(d, m, i) ==
    IF i <= 1 THEN 0 ELSE (d[i - 1] * m + CarryInto(d, m, i - 1)) \div Base

\* d * m, for 0 <= m < 1024
BigMul(d, m) ==
    [i \in Digits |-> (d[i] * m + CarryInto(d, m, i)) % Base]

\* --------------------------------------------------- DiskManager._parse_size
\* units = {"K": 1024, "M": 1024**2, "G": 1024**3, "T": 1024**4}, as exponents
units == [u \in {"K", "M", "G", "T"} |-> CASE u = "K" -> 1 [] u = "M" -> 2
                                             [] u = "G" -> 3 [] u = "T" -> 4]

\* int(float(size_str[:-1]) * units[size_str[-1].upper()])
parse_size(size_str) ==
    IF size_str.unit \notin DOMAIN units
    THEN [exc |-> "KeyError", size |-> BigOf(0, 0)]
    ELSE [exc |-> "none",
          size |-> BigDiv(BigOf(size_str.tenths, units[size_str.unit]), 10)]

\* ---------------------------------------------------------------- class Disk
Disk(device_path, size, filesystem, mounted, health_status) ==
    [device_path |-> device_path, size |-> size, filesystem |-> filesystem,
     mounted |-> mounted, health_status |-> health_status]

\* None, where a Disk is expected
NoDisk == Disk(<<>>, BigOf(0, 0), "", FALSE, "")

\* disk.get(key, ""): the default for a missing key, None for JSON null
get(value, default) ==
    IF value = Absent THEN default ELSE IF value = Null THEN None ELSE value

\* the body of the for loop of detect_disks, for one row whose size parses
disk_of_row(row) ==
    Disk(<<"", "dev">> \o row.name,
         parse_size(row.size).size,
         get(row.fstype, ""),
         row.mountpoint # Absent,
         get(row.health, ""))

\* --------------------------------------------------- DiskManager.detect_disks
\* rc is the listing tool's exit status: check_output raises when it is not 0
RECURSIVE detect_rows(_, _)
detect_rows(rows, disks) ==
    IF rows = <<>> THEN [exc |-> "none", ret |-> disks]
    ELSE IF parse_size(Head(rows).size).exc # "none"
    THEN [exc |-> parse_size(Head(rows).size).exc, ret |-> <<>>]
    ELSE detect_rows(Tail(rows), Append(disks, disk_of_row(Head(rows))))

detect_disks(table, rc) ==
    IF rc # 0 THEN [exc |-> "CalledProcessError", ret |-> <<>>]
    ELSE detect_rows(table, <<>>)

\* ---------------------------------------------------------- external tools
\* One record per call out of the process, in order: os.makedirs, or a
\* subprocess with its argument list (the tool, its flags, the device, the
\* directory).  <<>> stands for an argument that is not given.
Cmd(tool, flags, dev, dir) ==
    [tool |-> tool, flags |-> flags, dev |-> dev, dir |-> dir]

\* A subprocess ends with an exit status; NotStarted is the outcome of a tool
\* that could not be started at all (the run call raises FileNotFoundError).
NotStarted == -1
ExitCodes == {NotStarted, 0, 1, 32}

\* What os.makedirs(mount_point, exist_ok=True) can do
MakedirsOutcomes == {"ok", "PermissionError"}

\* f"/mnt/{disk.device_path.split('/')[-1]}"
Last(path) == path[Len(path)]

mount_point_of(disk) == <<"", "mnt", Last(disk.device_path)>>

\* ----------------------------------------------------- DiskManager.mount_disk
\* R is [exc, ret, cmds, logs, dirs]: what the call raised or returned, the
\* external calls it made, DiskManager.logger.logs and the directories after it
mount_disk_RaiseOnFailure(disk, logs, d, mk, rc) ==
    LET mount_point == mount_point_of(disk)
        c1 == Cmd("makedirs", <<>>, <<>>, mount_point)
        c2 == Cmd("mount", <<>>, disk.device_path, mount_point)
    IN  IF mk # "ok"
        THEN [exc |-> mk, ret |-> FALSE, cmds |-> <<c1>>, logs |-> logs, dirs |-> d]
        ELSE IF rc # 0
        THEN [exc |-> "CalledProcessError", ret |-> FALSE, cmds |-> <<c1, c2>>,
              logs |-> logs, dirs |-> d \cup {mount_point}]
        ELSE [exc |-> "none", ret |-> TRUE, cmds |-> <<c1, c2>>, logs |-> logs,
              dirs |-> d \cup {mount_point}]

mount_disk(disk, logs, d, mk, rc) ==
    LET mount_point == mount_point_of(disk)
        c1 == Cmd("makedirs", <<>>, <<>>, mount_point)
        c2 == Cmd("mount", <<>>, disk.device_path, mount_point)
    IN  IF mk # "ok"
        THEN [exc |-> mk, ret |-> FALSE, cmds |-> <<c1>>, logs |-> logs, dirs |-> d]
        ELSE IF rc = NotStarted
        THEN [exc |-> "FileNotFoundError", ret |-> FALSE, cmds |-> <<c1, c2>>,
              logs |-> logs, dirs |-> d \cup {mount_point}]
        ELSE IF rc # 0
        THEN [exc |-> "none", ret |-> FALSE, cmds |-> <<c1, c2>>,
              logs |-> log_errors(logs, <<"mount failed", "DISK_002", "disk", "mount point">>),
              dirs |-> d \cup {mount_point}]
        ELSE [exc |-> "none", ret |-> TRUE, cmds |-> <<c1, c2>>, logs |-> logs,
              dirs |-> d \cup {mount_point}]

\* --------------------------------------------------- DiskManager.unmount_disk
unmount_disk(disk, logs, rc) ==
    LET c == Cmd("umount", <<>>, disk.device_path, <<>>)
    IN  IF rc = NotStarted
        THEN [exc |-> "FileNotFoundError", ret |-> FALSE, cmds |-> <<c>>, logs |-> logs]
        ELSE IF rc # 0
        THEN [exc |-> "none", ret |-> FALSE, cmds |-> <<c>>,
              logs |-> log_errors(logs, <<"unmount failed", "DISK_003", "disk">>)]
        ELSE [exc |-> "none", ret |-> TRUE, cmds |-> <<c>>, logs |-> logs]

\* ----------------------------------------------- DiskManager.check_filesystem
\* The text a check tool prints is a sequence of words.
Words == {"clean", "errors", "not"}
Outputs == SeqsUpTo(Words, 2)

\* "clean" in output
has_clean(output) == \E i \in 1..Len(output) : output[i] = "clean"

\* class FilesystemStatus; details is a text
FilesystemStatus(is_consistent, details) ==
    [is_consistent |-> is_consistent, details |-> details]

ConsistentText == <<"consistent">>
UnsupportedText == <<"unsupported">>
NoStatus == FilesystemStatus(FALSE, <<>>)

FsckFailed == <<"check failed", "DISK_004", "disk">>

check_filesystem_IgnoreOutput(disk, logs, rc, output) ==
    IF disk.filesystem \in {"ext4", "ntfs"}
    THEN LET c == IF disk.filesystem = "ext4"
                  THEN Cmd("fsck.ext4", <<"-n">>, disk.device_path, <<>>)
                  ELSE Cmd("ntfsfix", <<>>, disk.device_path, <<>>)
         IN  IF rc = NotStarted
             THEN [exc |-> "FileNotFoundError", ret |-> NoStatus, cmds |-> <<c>>,
                   logs |-> logs]
             ELSE IF rc # 0
             THEN [exc |-> "none", ret |-> FilesystemStatus(FALSE, output),
                   cmds |-> <<c>>, logs |-> log_errors(logs, FsckFailed)]
             ELSE [exc |-> "none", ret |-> FilesystemStatus(TRUE, ConsistentText),
                   cmds |-> <<c>>, logs |-> logs]
    ELSE [exc |-> "none", ret |-> FilesystemStatus(FALSE, UnsupportedText),
          cmds |-> <<>>,
          logs |-> log_errors(logs, <<"unsupported filesystem", "DISK_005", "disk">>)]

check_filesystem_FsckAny(disk, logs, rc, output) ==
    LET c == Cmd("fsck.ext4", <<"-n">>, disk.device_path, <<>>)
    IN  IF rc = NotStarted
        THEN [exc |-> "FileNotFoundError", ret |-> NoStatus, cmds |-> <<c>>,
              logs |-> logs]
        ELSE IF rc # 0
        THEN [exc |-> "none", ret |-> FilesystemStatus(FALSE, output),
              cmds |-> <<c>>, logs |-> log_errors(logs, FsckFailed)]
        ELSE IF has_clean(output)
        THEN [exc |-> "none", ret |-> FilesystemStatus(TRUE, ConsistentText),
              cmds |-> <<c>>, logs |-> logs]
        ELSE [exc |-> "none", ret |-> FilesystemStatus(FALSE, output),
              cmds |-> <<c>>, logs |-> logs]

check_filesystem(disk, logs, rc, output) ==
    IF disk.filesystem = "ext4"
    THEN LET c == Cmd("fsck.ext4", <<"-n">>, disk.device_path, <<>>)
         IN  IF rc = NotStarted
             THEN [exc |-> "FileNotFoundError", ret |-> NoStatus, cmds |-> <<c>>,
                   logs |-> logs]
             ELSE IF rc # 0
             THEN [exc |-> "none", ret |-> FilesystemStatus(FALSE, output),
                   cmds |-> <<c>>, logs |-> log_errors(logs, FsckFailed)]
             ELSE IF has_clean(output)
             THEN [exc |-> "none", ret |-> FilesystemStatus(TRUE, ConsistentText),
                   cmds |-> <<c>>, logs |-> logs]
             ELSE [exc |-> "none", ret |-> FilesystemStatus(FALSE, output),
                   cmds |-> <<c>>, logs |-> logs]
    ELSE IF disk.filesystem = "ntfs"
    THEN LET c == Cmd("ntfsfix", <<>>, disk.device_path, <<>>)
         IN  IF rc = NotStarted
             THEN [exc |-> "FileNotFoundError", ret |-> NoStatus, cmds |-> <<c>>,
                   logs |-> logs]
             ELSE IF rc # 0
             THEN [exc |-> "none", ret |-> FilesystemStatus(FALSE, output),
                   cmds |-> <<c>>, logs |-> log_errors(logs, FsckFailed)]
             ELSE [exc |-> "none", ret |-> FilesystemStatus(TRUE, ConsistentText),
                   cmds |-> <<c>>, logs |-> logs]
    ELSE [exc |-> "none", ret |-> FilesystemStatus(FALSE, UnsupportedText),
          cmds |-> <<>>,
          logs |-> log_errors(logs, <<"unsupported filesystem", "DISK_005", "disk">>)]

\* ------------------------------------------------- DiskManager.get_disk_info
\* A tool's output is text: a sequence of tokens, each a word, a colon or a
\* space; an output of several lines is a sequence of such lines.
Colon == ":"
Space == " "

\* str.strip(): the text without its leading and trailing spaces
RECURSIVE lstrip(_)
lstrip(text) ==
    IF text # <<>> /\ Head(text) = Space THEN lstrip(Tail(text)) ELSE text

RECURSIVE rstrip(_)
rstrip(text) ==
    IF text # <<>> /\ text[Len(text)] = Space
    THEN rstrip(SubSeq(text, 1, Len(text) - 1))
    ELSE text

strip(text) == lstrip(rstrip(text))

\* The position of the first token sep in text, 0 when there is none
RECURSIVE find(_, _, _)
find(text, sep, i) ==
    IF i > Len(text) THEN 0
    ELSE IF text[i] = sep THEN i
    ELSE find(text, sep, i + 1)

\* str.split(sep): the pieces between the separators, empty pieces included
RECURSIVE split(_, _)
split(text, sep) ==
    LET i == find(text, sep, 1)
    IN  IF i = 0 THEN <<text>>
        ELSE <<SubSeq(text, 1, i - 1)>> \o split(SubSeq(text, i + 1, Len(text)), sep)

\* class DiskInfo
DiskInfo(model, serial, partition_table, smart_status) ==
    [model |-> model, serial |-> serial, partition_table |-> partition_table,
     smart_status |-> smart_status]

\* A dict is a function on its keys; d[key] = value
EmptyDict == [k \in {} |-> <<>>]

setitem(d, key, value) ==
    [k \in DOMAIN d \cup {key} |-> IF k = key THEN value ELSE d[k]]

\* _parse_smart_status: for each line with a colon, split at the first colon
\* and store the stripped value under the stripped key
RECURSIVE parse_smart_status(_, _)
parse_smart_status(lines, smart_status) ==
    IF lines = <<>> THEN smart_status
    ELSE LET line == Head(lines)
             i == find(line, Colon, 1)
         IN  IF i = 0 THEN parse_smart_status(Tail(lines), smart_status)
             ELSE parse_smart_status(
                      Tail(lines),
                      setitem(smart_status,
                              strip(SubSeq(line, 1, i - 1)),
                              strip(SubSeq(line, i + 1, Len(line)))))

NoInfo == DiskInfo(<<>>, <<>>, <<>>, EmptyDict)

SmartFailed == <<"smart failed", "DISK_006", "disk">>

\* What check_output does with a tool's exit status
check_output_exc(rc) ==
    IF rc = NotStarted THEN "FileNotFoundError"
    ELSE IF rc # 0 THEN "CalledProcessError"
    ELSE "none"

\* A mutant of get_disk_info without the try around the SMART query
get_disk_info_NoTry(disk, logs, rcs, lsout, ptout, smout) ==
    LET c1 == Cmd("lsblk", <<"-dno", "MODEL,SERIAL">>, disk.device_path, <<>>)
        c2 == Cmd("blkid", <<"-o", "value", "-s", "PTTYPE">>, disk.device_path, <<>>)
        c3 == Cmd("smartctl", <<"-i", "-H", "-c", "-A">>, disk.device_path, <<>>)
        parts == split(strip(lsout), Space)
    IN  IF check_output_exc(rcs[1]) # "none"
        THEN [exc |-> check_output_exc(rcs[1]), ret |-> NoInfo, logs |-> logs,
              cmds |-> <<c1>>]
        ELSE IF Len(parts) # 2
        THEN [exc |-> "ValueError", ret |-> NoInfo, logs |-> logs, cmds |-> <<c1>>]
        ELSE IF check_output_exc(rcs[2]) # "none"
        THEN [exc |-> check_output_exc(rcs[2]), ret |-> NoInfo, logs |-> logs,
              cmds |-> <<c1, c2>>]
        ELSE IF check_output_exc(rcs[3]) # "none"
        THEN [exc |-> check_output_exc(rcs[3]), ret |-> NoInfo, logs |-> logs,
              cmds |-> <<c1, c2, c3>>]
        ELSE [exc |-> "none",
              ret |-> DiskInfo(parts[1], parts[2], strip(ptout),
                               parse_smart_status(smout, EmptyDict)),
              logs |-> logs, cmds |-> <<c1, c2, c3>>]

\* get_disk_info(disk): rcs are the exit statuses of lsblk, blkid and
\* smartctl; lsout, ptout and smout are what they print
get_disk_info(disk, logs, rcs, lsout, ptout, smout) ==
    LET c1 == Cmd("lsblk", <<"-dno", "MODEL,SERIAL">>, disk.device_path, <<>>)
        c2 == Cmd("blkid", <<"-o", "value", "-s", "PTTYPE">>, disk.device_path, <<>>)
        c3 == Cmd("smartctl", <<"-i", "-H", "-c", "-A">>, disk.device_path, <<>>)
        parts == split(strip(lsout), Space)
    IN  IF check_output_exc(rcs[1]) # "none"
        THEN [exc |-> check_output_exc(rcs[1]), ret |-> NoInfo, logs |-> logs,
              cmds |-> <<c1>>]
        ELSE IF Len(parts) # 2
        THEN [exc |-> "ValueError", ret |-> NoInfo, logs |-> logs, cmds |-> <<c1>>]
        ELSE IF check_output_exc(rcs[2]) # "none"
        THEN [exc |-> check_output_exc(rcs[2]), ret |-> NoInfo, logs |-> logs,
              cmds |-> <<c1, c2>>]
        ELSE IF rcs[3] = NotStarted
        THEN [exc |-> "FileNotFoundError", ret |-> NoInfo, logs |-> logs,
              cmds |-> <<c1, c2, c3>>]
        ELSE IF rcs[3] # 0
        THEN [exc |-> "none",
              ret |-> DiskInfo(parts[1], parts[2], strip(ptout), EmptyDict),
              logs |-> log_errors(logs, SmartFailed), cmds |-> <<c1, c2, c3>>]
        ELSE [exc |-> "none",
              ret |-> DiskInfo(parts[1], parts[2], strip(ptout),
                               parse_smart_status(smout, EmptyDict)),
              logs |-> logs, cmds |-> <<c1, c2, c3>>]

\* ==================================================== FileHandler.list_files
\* os.walk visits the files in the order of PathOrder
PathOrder ==
    << <<"", "mnt", "sda", "a.txt">>, <<"", "mnt", "sda", "b.png">>,
       <<"", "mnt", "sdb", "a.txt">>, <<"", "mnt", "sdb", "b.png">>,
       <<"", "out", "a.txt">>, <<"", "out", "b.png">> >>

IsUnder(p, path) == Len(p) > Len(path) /\ SubSeq(p, 1, Len(path)) = path

\* os.walk(path) scans path and, below it, every directory it can scan; an
\* error of a directory scan is ignored (onerror is None), so the files of a
\* directory in noscan, and of the directories below it, are not visited
Scanned(p, path, noscan) ==
    \A k \in Len(path)..(Len(p) - 1) : SubSeq(p, 1, k) \notin noscan

\* for root, _, filenames in os.walk(path): ... files.append(File(...));
\* a file whose os.path.getsize raises OSError is skipped with a warning
RECURSIVE walk(_, _, _, _, _, _, _)
walk(f, path, statfail, noscan, i, files, logs) ==
    IF i > Len(PathOrder) THEN [files |-> files, logs |-> logs]
    ELSE LET p == PathOrder[i]
         IN  IF ~(IsUnder(p, path) /\ f[p].exists /\ Scanned(p, path, noscan))
             THEN walk(f, path, statfail, noscan, i + 1, files, logs)
             ELSE IF p \in statfail
             THEN walk(f, path, statfail, noscan, i + 1, files,
                       log_warning(logs, "stat failed"))
             ELSE walk(f, path, statfail, noscan, i + 1,
                       Append(files, File(p, getsize(f, p))), logs)

\* list_files(path): a path that does not exist raises FileNotFoundError
\* inside the try block, and except Exception logs FILE_001 and returns []
list_files(f, d, logs, path, statfail, noscan) ==
    LET l0 == log_info(logs, "listing")
    IN  IF path \notin d
        THEN [exc |-> "none", ret |-> <<>>,
              logs |-> log_errors(l0, <<"listing failed", "FILE_001", "path">>)]
        ELSE LET w == walk(f, path, statfail, noscan, 1, <<>>, l0)
             IN  [exc |-> "none", ret |-> w.files,
                  logs |-> log_info(w.logs, "listed")]

\* --------------------------------------------- FileHandler.get_file_attributes
\* class FileAttributes; the times are those of the file's stat record
FileAttributes(creation_time, modified_time, permissions, owner, is_hidden) ==
    [creation_time |-> creation_time, modified_time |-> modified_time,
     permissions |-> permissions, owner |-> owner, is_hidden |-> is_hidden]

UnknownAttributes == FileAttributes("unknown", "unknown", "unknown", "unknown", FALSE)

\* basename(file.path).startswith(".")
DotNames == {".profile"}

\* get_file_attributes(file): statok says whether os.stat succeeds, owner is
\* the name pwd.getpwuid finds for the file's uid (None when it raises
\* KeyError); every exception of the try block, the FileNotFoundError it
\* raises itself included, is caught: FILE_004 is logged and the unknown
\* attributes are returned
get_file_attributes(f, logs, file, statok, owner) ==
    LET l0 == log_info(logs, "getting attributes")
        failed == [exc |-> "none", ret |-> UnknownAttributes,
                   logs |-> log_errors(l0, <<"attributes failed", "FILE_004", "file">>)]
    IN  IF ~exists(f, file.path) THEN failed
        ELSE IF ~statok THEN failed
        ELSE IF owner = None THEN failed
        ELSE [exc |-> "none",
              ret |-> FileAttributes("st_ctime", "st_mtime", "st_mode & 0o777",
                                     owner, basename(file.path) \in DotNames),
              logs |-> log_info(l0, "attributes done")]

\* ------------------------------------------ FileHandler.handle_corrupted_files
\* class FileError
FileError(error_code, message) == [error_code |-> error_code, message |-> message]

FILE_006 == 6

\* The checked files live in one directory.  A non-empty file's content is
\* its first eight bytes, named by what they start with, followed by the rest
\* of its data; badblock says that reading the file through raises IOError.
HcNames == {"a.txt", "b.png", "c.JPG", "d.zip"}
HcPaths == {<<"", "mnt", "sda", n>> : n \in HcNames}
Headers == {"89 PNG 0D 0A 1A 0A", "FF D8 FF", "PK 03 04", "plain text"}

\* magic_numbers: the byte sequences header.startswith is tried with
magic_numbers ==
    [m \in {"89 PNG 0D 0A 1A 0A", "FF D8 FF", "GIF87a", "GIF89a", "%PDF",
            "PK 03 04", "PK 05 06", "PK 07 08"} |->
        CASE m = "89 PNG 0D 0A 1A 0A" -> "PNG"
          [] m = "FF D8 FF" -> "JPEG"
          [] m \in {"GIF87a", "GIF89a"} -> "GIF"
          [] m = "%PDF" -> "PDF"
          [] OTHER -> "ZIP"]

\* file_type: the type of the magic number the header starts with, or None
file_type_of(header) ==
    IF header \in DOMAIN magic_numbers THEN magic_numbers[header] ELSE None

expected_extensions ==
    [t \in {"PNG", "JPEG", "GIF", "PDF", "ZIP"} |->
        CASE t = "PNG" -> {".png"}
          [] t = "JPEG" -> {".jpg", ".jpeg"}
          [] t = "GIF" -> {".gif"}
          [] t = "PDF" -> {".pdf"}
          [] OTHER -> {".zip"}]

\* os.path.splitext(file.path)[1].lower()
ext_of(path) ==
    CASE basename(path) = "a.txt" -> ".txt"
      [] basename(path) = "b.png" -> ".png"
      [] basename(path) = "c.JPG" -> ".jpg"
      [] basename(path) = "d.zip" -> ".zip"
      [] OTHER -> ""

\* The body of the loop for one file: the errors it appends and whether it
\* sets file.is_corrupted
check_one(f, file) ==
    LET failed == [errors |-> <<FileError(FILE_006, <<"check failed", file.path>>)>>,
                   flag |-> TRUE]
    IN  IF ~exists(f, file.path) THEN failed
        ELSE IF getsize(f, file.path) = 0
        THEN [errors |-> <<FileError(FILE_006, <<"empty file", file.path>>)>>,
              flag |-> TRUE]
        ELSE IF ~f[file.path].readable THEN failed
        ELSE LET header == f[file.path].content[1]
                 file_type == file_type_of(header)
                 mismatch == /\ file_type # None
                             /\ ext_of(file.path) \notin expected_extensions[file_type]
                 unreadable == f[file.path].badblock
             IN  [errors |->
                    (IF mismatch
                     THEN <<FileError(FILE_006, <<"bad extension", file.path>>)>>
                     ELSE <<>>)
                    \o (IF unreadable
                        THEN <<FileError(FILE_006, <<"read failed", file.path>>)>>
                        ELSE <<>>),
                  flag |-> mismatch \/ unreadable]

\* for file in files: ...; the File objects of the list are updated in place
RECURSIVE check_files(_, _, _, _)
check_files(f, files, i, R) ==
    IF i > Len(files) THEN R
    ELSE LET c == check_one(f, files[i])
         IN  check_files(f, files, i + 1,
                         [errors |-> R.errors \o c.errors,
                          files |-> IF c.flag
                                    THEN [R.files EXCEPT ![i].is_corrupted = TRUE]
                                    ELSE R.files])

handle_corrupted_files(f, logs, files) ==
    LET R == check_files(f, files, 1, [errors |-> <<>>, files |-> files])
    IN  [exc |-> "none", ret |-> R.errors, files |-> R.files,
         logs |-> log_info(log_info(logs, "checking"), "checked")]

\* ============================================================== Application
\* The state the methods of Application work on: the three loggers, the
\* window's fields, the file system, and (history) the calls made on the
\* DiskManager, the FileHandler and the operating system, and the errors
\* shown to the user.
LC(op, dev, dir, ok) == [op |-> op, dev |-> dev, dir |-> dir, ok |-> ok]

RECURSIVE cmds_as_calls(_, _)
cmds_as_calls(cmds, ok) ==
    IF cmds = <<>> THEN <<>>
    ELSE <<LC(Head(cmds).tool, Head(cmds).dev, Head(cmds).dir,
              IF Len(cmds) = 1 THEN ok ELSE TRUE)>>
         \o cmds_as_calls(Tail(cmds), ok)

\* What a mounted disk holds: the files of FixedContent under its mount point
MountedFs(f, mount_point) ==
    [p \in AllPaths |->
        IF dirname(p) = mount_point /\ p \in SrcPaths
        THEN Written(FixedContent(p)) ELSE f[p]]

UnmountedFs(f, mount_point) ==
    [p \in AllPaths |-> IF dirname(p) = mount_point THEN NoFile ELSE f[p]]

\* Application.detect_and_update_disks; MainWindow.update_disk_list formats
\* one line per disk, "<device_path> (<size>GB, <filesystem>)"
DiskLine(disk) == <<disk.device_path, disk.filesystem>>

RECURSIVE DiskLines(_)
DiskLines(disks) ==
    IF disks = <<>> THEN <<>> ELSE <<DiskLine(Head(disks))>> \o DiskLines(Tail(disks))

detect_and_update_disks(L, table, rc) ==
    LET r == detect_disks(table, rc)
        L1 == [L EXCEPT !.calls = Append(@, LC("detect_disks", <<>>, <<>>, r.exc = "none"))]
    IN  IF r.exc = "none"
        THEN [L1 EXCEPT !.win.disk_list = IF L.win.window THEN DiskLines(r.ret) ELSE @,
                        !.app_log = log_info(@, "disks detected")]
        ELSE show_error([L1 EXCEPT !.app_log =
                            log_errors(@, <<"detection failed", "DISK_001">>)],
                        "detection failed")

\* Application.handle_disk_selection: selected_disk.split(" ")[0] is the
\* first word of the selected line; the result is a disk, or None
RECURSIVE find_disk(_, _)
find_disk(disks, device_path) ==
    IF disks = <<>> THEN [found |-> FALSE, disk |-> NoDisk]
    ELSE IF Head(disks).device_path = device_path
    THEN [found |-> TRUE, disk |-> Head(disks)]
    ELSE find_disk(Tail(disks), device_path)

\* A mutant without the try block: a failing detection raises out of it
handle_disk_selection_NoTry(L, table, rc, selected_disk) ==
    LET device_path == selected_disk[1]
        r == detect_disks(table, rc)
        L1 == [L EXCEPT !.calls = Append(@, LC("detect_disks", <<>>, <<>>, r.exc = "none"))]
    IN  IF r.exc = "none"
        THEN [L |-> L1, ret |-> find_disk(r.ret, device_path), exc |-> "none",
              disks |-> r.ret, dm |-> [exc |-> r.exc, ret |-> TRUE]]
        ELSE [L |-> L1, ret |-> [found |-> FALSE, disk |-> NoDisk], exc |-> r.exc,
              disks |-> <<>>, dm |-> [exc |-> r.exc, ret |-> FALSE]]

handle_disk_selection(L, table, rc, selected_disk) ==
    LET device_path == selected_disk[1]
        r == detect_disks(table, rc)
        L1 == [L EXCEPT !.calls = Append(@, LC("detect_disks", <<>>, <<>>, r.exc = "none"))]
    IN  IF r.exc = "none"
        THEN [L |-> L1, ret |-> find_disk(r.ret, device_path), exc |-> "none",
              disks |-> r.ret, dm |-> [exc |-> r.exc, ret |-> TRUE]]
        ELSE [L |-> show_error([L1 EXCEPT !.app_log = log_error(@, "selection failed")],
                               "selection failed"),
              ret |-> [found |-> FALSE, disk |-> NoDisk], exc |-> "none",
              disks |-> <<>>, dm |-> [exc |-> r.exc, ret |-> FALSE]]

\* Application.mount_disk
app_mount_disk(L, disk, mk, rc) ==
    LET r == mount_disk(disk, L.dm_log, L.dirs, mk, rc)
        mounted == r.exc = "none" /\ r.ret
        L1 == [L EXCEPT !.dm_log = r.logs, !.dirs = r.dirs,
                        !.calls = @ \o cmds_as_calls(r.cmds, mounted),
                        !.fs = IF mounted THEN MountedFs(@, mount_point_of(disk)) ELSE @]
        dmr == [exc |-> r.exc, ret |-> r.ret]
    IN  IF r.exc # "none"
        THEN [L |-> show_error([L1 EXCEPT !.app_log = log_error(@, "mount error")],
                               "mount error"),
              ret |-> FALSE, exc |-> "none", dm |-> dmr]
        ELSE IF r.ret
        THEN [L |-> [L1 EXCEPT !.app_log = log_info(@, "mounted")],
              ret |-> TRUE, exc |-> "none", dm |-> dmr]
        ELSE [L |-> show_error(L1, "mount failed"),
              ret |-> FALSE, exc |-> "none", dm |-> dmr]

\* Application.unmount_disk
app_unmount_disk(L, disk, rc) ==
    LET r == unmount_disk(disk, L.dm_log, rc)
        unmounted == r.exc = "none" /\ r.ret
        L1 == [L EXCEPT !.dm_log = r.logs,
                        !.calls = @ \o cmds_as_calls(r.cmds, unmounted),
                        !.fs = IF unmounted THEN UnmountedFs(@, mount_point_of(disk)) ELSE @]
        dmr == [exc |-> r.exc, ret |-> r.ret]
    IN  IF r.exc # "none"
        THEN [L |-> show_error([L1 EXCEPT !.app_log = log_error(@, "unmount error")],
                               "unmount error"),
              ret |-> FALSE, exc |-> "none", dm |-> dmr]
        ELSE IF r.ret
        THEN [L |-> [L1 EXCEPT !.app_log = log_info(@, "unmounted")],
              ret |-> TRUE, exc |-> "none", dm |-> dmr]
        ELSE [L |-> show_error(L1, "unmount failed"),
              ret |-> FALSE, exc |-> "none", dm |-> dmr]

\* Application.check_disk_status; MainWindow.display_disk_status shows
\* "normal" or the details
check_disk_status(L, disk, rc, output) ==
    LET r == check_filesystem(disk, L.dm_log, rc, output)
        L1 == [L EXCEPT !.dm_log = r.logs,
                        !.calls = Append(@, LC("check_filesystem", disk.device_path,
                                               <<>>, r.exc = "none"))]
    IN  IF r.exc # "none"
        THEN show_error([L1 EXCEPT !.app_log = log_error(@, "check failed")],
                        "check failed")
        ELSE [L1 EXCEPT !.win.disk_status =
                            IF ~L.win.window THEN @
                            ELSE IF r.ret.is_consistent THEN <<"normal">>
                            ELSE <<"problem">> \o r.ret.details,
                        !.app_log = log_info(@, "checked")]

\* A mutant of update_file_list that lists the device path, not the mount point
update_file_list_DevicePath(L, disk) ==
    LET r == list_files(L.fs, L.dirs, L.fh_log, disk.device_path, {}, {})
    IN  [L EXCEPT !.fh_log = r.logs,
                  !.calls = Append(@, LC("list_files", <<>>, disk.device_path, TRUE)),
                  !.win.file_tree = IF L.win.window THEN r.ret ELSE @,
                  !.app_log = log_info(@, "files listed")]

\* Application.update_file_list; MainWindow.update_file_tree shows one row
\* per file, whose key is the file's path
update_file_list(L, disk) ==
    LET mount_point == <<"", "mnt", Last(disk.device_path)>>
        r == list_files(L.fs, L.dirs, L.fh_log, mount_point, {}, {})
    IN  [L EXCEPT !.fh_log = r.logs,
                  !.calls = Append(@, LC("list_files", <<>>, mount_point, TRUE)),
                  !.win.file_tree = IF L.win.window THEN r.ret ELSE @,
                  !.app_log = log_info(@, "files listed")]


\* ============================================================ initial state
\* The state after construction: Application.__init__ builds a MainWindow
\* (no window, no current disk, nothing selected) and three Loggers with
\* empty logs, one each for Application, DiskManager and FileHandler.
EmptyFs == [p \in AllPaths |-> NoFile]

vc0 ==
    [called |-> FALSE, source |-> <<>>, destination |-> <<>>, ret |-> FALSE,
     raised |-> FALSE]

fh0 ==
    [op |-> "none", path |-> <<>>, statfail |-> {}, noscan |-> {},
     files |-> <<>>, destination |-> <<>>, outcomes |-> <<>>, before |-> <<>>,
     tried |-> 0, made |-> 0, exc |-> "none", ret |-> FALSE, listed |-> <<>>, errors |-> <<>>,
     attrs |-> UnknownAttributes]

cf0 ==
    [called |-> FALSE, files |-> <<>>, destination |-> <<>>, calls |-> <<>>,
     progress |-> <<>>, shown |-> <<>>, completed |-> FALSE, raised |-> FALSE]

lg0 ==
    [logs |-> <<>>, calls |-> <<>>, file |-> <<>>, before |-> <<>>, exc |-> "none"]

dm0 ==
    [op |-> "none", disk |-> NoDisk, table |-> <<>>, mk |-> "ok", rc |-> 0,
     output |-> <<>>,
     exc |-> "none", ret |-> FALSE, status |-> NoStatus, disks |-> <<>>,
     cmds |-> <<>>, rcs |-> <<>>, lsout |-> <<>>, ptout |-> <<>>,
     lines |-> <<>>, info |-> NoInfo]

win0 ==
    [window |-> FALSE, current_disk |-> NoDisk, selected_files |-> <<>>,
     file_tree |-> <<>>, disk_list |-> <<>>, disk_status |-> <<>>]

app0 ==
    [op |-> "none", disk |-> NoDisk, selected |-> <<>>, dm |-> [exc |-> "none", ret |-> FALSE],
     disks |-> <<>>, files |-> <<>>, calls |-> <<>>, caught |-> "none",
     exc |-> "none", ret |-> FALSE, found |-> NoDisk, log |-> <<>>, shown |-> <<>>,
     before |-> win0, after |-> win0, destination |-> <<>>, at |-> 0]

hist0 ==
    [events |-> 0, calls |-> <<>>, shown |-> <<>>, saved |-> <<>>, exit_at |-> 0,
     sudo |-> [called |-> FALSE, rc |-> 0, ret |-> FALSE]]

InitRest ==
    /\ fh_log = <<>>
    /\ app_log = <<>>
    /\ dm_log = <<>>
    /\ vc = vc0
    /\ fh = fh0
    /\ cf = cf0
    /\ app = app0
    /\ lg = lg0
    /\ dm = dm0
    /\ win = win0
    /\ pc = "start"
    /\ hist = hist0

\* The entries a call added to a log, or the errors it added to those shown
Appended(after, before) == SubSeq(after, Len(before) + 1, Len(after))

\* ============================================= FileHandler.verify_copy alone
\* Two paths, each missing or holding any content, readable or not.
VSrc == <<"", "mnt", "sda", "a.txt">>
VDst == <<"", "out", "a.txt">>

InitVerify ==
    /\ fs \in {[EmptyFs EXCEPT ![VSrc] = a, ![VDst] = b] : a, b \in FileStates}
    /\ dirs = Dirs
    /\ lsblk = <<>>
    /\ InitRest

VerifyCopy ==
    \E source \in {VSrc, VDst}, destination \in {VSrc, VDst} :
        /\ ~vc.called
        /\ \E r \in {verify_copy(fs, fh_log, source, destination)} :
               /\ vc' = [called |-> TRUE, source |-> source,
                         destination |-> destination, ret |-> r.ret,
                         raised |-> r.exc # "none"]
               /\ fh_log' = r.logs
        /\ UNCHANGED <<fs, dirs, fh, cf, app, lg, app_log, dm_log, dm, lsblk, win, pc, hist>>

NextVerify == VerifyCopy

SpecVerify == InitVerify /\ [][NextVerify]_vars

\* ============================================== FileHandler.list_files alone
\* /mnt holds the two mount points; any of their files may be there
MntFiles == {p \in AllPaths : IsUnder(p, <<"", "mnt">>)}

ListFs(present) ==
    [p \in AllPaths |-> IF p \in present THEN Written(FixedContent(p)) ELSE NoFile]

InitList ==
    /\ fs \in {ListFs(present) : present \in SUBSET MntFiles}
    /\ dirs = Dirs \cup {<<"", "mnt">>}
    /\ lsblk = <<>>
    /\ InitRest

ListFiles ==
    \E path \in SrcDirs \cup {<<"", "mnt">>, <<"", "gone">>},
       statfail \in AtMostOne(MntFiles),
       noscan \in AtMostOne(SrcDirs \cup {<<"", "mnt">>}) :
        /\ fh.op = "none"
        /\ \E r \in {list_files(fs, dirs, fh_log, path, statfail, noscan)} :
               /\ fh' = [fh EXCEPT !.op = "list_files", !.path = path,
                                  !.statfail = statfail, !.noscan = noscan,
                                  !.exc = r.exc, !.listed = r.ret]
               /\ fh_log' = r.logs
        /\ UNCHANGED <<fs, dirs, vc, cf, app, lg, app_log, dm_log, dm, lsblk, win, pc, hist>>

GetFileAttributes ==
    \E p \in MntFiles, statok \in BOOLEAN, owner \in {"root", None} :
        /\ fh.op = "none"
        /\ \E r \in {get_file_attributes(fs, fh_log, File(p, getsize(fs, p)),
                                         statok, owner)} :
               /\ fh' = [fh EXCEPT !.op = "get_file_attributes", !.path = p,
                                  !.exc = r.exc, !.attrs = r.ret]
               /\ fh_log' = r.logs
        /\ UNCHANGED <<fs, dirs, vc, cf, app, lg, app_log, dm_log, dm, lsblk, win, pc, hist>>

NextList ==
    \/ ListFiles
    \/ GetFileAttributes

SpecList == InitList /\ [][NextList]_vars

\* ============================================ Application.copy_files alone
\* The source files: each has its own content; at most one is missing and at
\* most one cannot be read.  The destination directory may not exist, and may
\* hold an older file.
SrcFs(missing, unreadable, stale) ==
    [p \in AllPaths |->
        IF p \in SrcPaths
        THEN IF p \in missing THEN NoFile
             ELSE [exists |-> TRUE, content |-> FixedContent(p),
                   readable |-> p \notin unreadable]
        ELSE IF stale /\ p = VDst THEN Written(<<1, 1>>) ELSE NoFile]

InitCopy ==
    /\ fs \in {SrcFs(m, u, st) : m \in AtMostOne(SrcPaths),
                                 u \in AtMostOne({VSrc}), st \in BOOLEAN}
    /\ dirs \in {SrcDirs, Dirs}
    /\ lsblk = <<>>
    /\ InitRest

\* The File records a listing of the source directories gave
ListedFiles(f) == {File(p, getsize(f, p)) : p \in SrcPaths}

AppCopyFiles ==
    \E files \in SeqsUpTo(ListedFiles(fs), MaxFiles),
       destination \in DestDirs \cup {dirname(VSrc)} :
      \E outcomes \in [1..Len(files) -> CopyOutcomes] :
        /\ ~cf.called
        /\ \E R \in {app_copy_files(CopyState(fs, fh_log, app_log), dirs, files,
                                    destination, outcomes)} :
               /\ cf' = [called |-> TRUE, files |-> files,
                         destination |-> destination, calls |-> R.calls,
                         progress |-> R.progress, shown |-> R.shown,
                         completed |-> R.completed, raised |-> R.exc # "none"]
               /\ fs' = R.fs
               /\ fh_log' = R.fh_log
               /\ app_log' = R.app_log
        /\ UNCHANGED <<dirs, vc, fh, app, lg, dm_log, dm, lsblk, win, pc, hist>>

NextCopy == AppCopyFiles

SpecCopy == InitCopy /\ [][NextCopy]_vars

\* ============== Application.copy_files on Files and on keys of the file tree
\* The selection the loop passes to copy_files holds the keys of the selected
\* rows; a caller with File objects passes those.
Selectable(f) == ListedFiles(f) \cup {TreeKey(p) : p \in SrcPaths}

AppCopyAny ==
    \E files \in SeqsUpTo(Selectable(fs), MaxFiles), destination \in DestDirs :
      \E outcomes \in [1..Len(files) -> {"ok", "ioerror"}] :
        /\ app.op = "none"
        /\ \E R \in {app_copy_files(CopyState(fs, fh_log, app_log), dirs, files,
                                    destination, outcomes)} :
               /\ app' = [app0 EXCEPT !.op = "copy_files", !.files = files,
                                      !.calls = R.calls, !.caught = R.caught,
                                      !.exc = R.exc,
                                      !.log = Appended(R.app_log, app_log),
                                      !.shown = R.shown]
               /\ fs' = R.fs
               /\ fh_log' = R.fh_log
               /\ app_log' = R.app_log
        /\ UNCHANGED <<dirs, vc, fh, cf, lg, dm_log, dm, lsblk, win, pc, hist>>

NextCopyAny == AppCopyAny

SpecCopyAny == InitCopy /\ [][NextCopyAny]_vars

\* ============================================== FileHandler.copy_files alone
FhCopyFiles ==
    \E files \in SeqsUpTo(ListedFiles(fs), MaxFiles),
       destination \in DestDirs \cup {dirname(VSrc)} :
      \E outcomes \in [1..Len(files) -> CopyOutcomes] :
        /\ fh.op = "none"
        /\ \E r \in {fh_copy_files(fs, dirs, fh_log, files, destination, outcomes)} :
               /\ fh' = [fh EXCEPT !.op = "copy_files", !.files = files,
                                  !.destination = destination,
                                  !.outcomes = outcomes, !.before = fs,
                                  !.tried = r.tried, !.made = r.made,
                                  !.exc = r.exc,
                                  !.ret = r.ret]
               /\ fs' = r.fs
               /\ fh_log' = r.logs
        /\ UNCHANGED <<dirs, vc, cf, app, lg, app_log, dm_log, dm, lsblk, win, pc, hist>>

NextFhCopy == FhCopyFiles

SpecFhCopy == InitCopy /\ [][NextFhCopy]_vars

\* ================================== FileHandler.handle_corrupted_files alone
HcGone == [exists |-> FALSE, content |-> <<>>, readable |-> FALSE, badblock |-> FALSE]

HcStates ==
    {[exists |-> TRUE, content |-> <<>>, readable |-> TRUE, badblock |-> FALSE]}
    \cup {[exists |-> TRUE, content |-> <<h, "data">>, readable |-> r[1],
           badblock |-> r[2]] :
            h \in Headers, r \in {<<TRUE, FALSE>>, <<FALSE, FALSE>>, <<TRUE, TRUE>>}}

\* At most two of the files exist
InitCorrupt ==
    /\ fs \in {[p \in HcPaths |-> IF p = p1 THEN s1 ELSE IF p = p2 THEN s2 ELSE HcGone] :
                  p1 \in HcPaths, p2 \in HcPaths, s1 \in HcStates,
                  s2 \in HcStates \cup {HcGone}}
    /\ dirs = SrcDirs
    /\ lsblk = <<>>
    /\ InitRest

\* The File records handed in: all as a listing made them, or all marked
\* as corrupted by the caller
HcFiles(f, marked) ==
    {[File(p, getsize(f, p)) EXCEPT !.is_corrupted = marked] : p \in HcPaths}

HandleCorruptedFiles ==
    \E marked \in BOOLEAN :
      \E files \in SeqsUpTo(HcFiles(fs, marked), MaxFiles) :
        /\ fh.op = "none"
        /\ \E r \in {handle_corrupted_files(fs, fh_log, files)} :
               /\ fh' = [fh EXCEPT !.op = "handle_corrupted_files",
                                  !.files = files, !.listed = r.files,
                                  !.errors = r.ret, !.exc = r.exc]
               /\ fh_log' = r.logs
        /\ UNCHANGED <<fs, dirs, vc, cf, app, lg, app_log, dm_log, dm, lsblk, win, pc, hist>>

NextCorrupt == HandleCorruptedFiles

SpecCorrupt == InitCorrupt /\ [][NextCorrupt]_vars

\* ======================================================= DiskManager alone
\* One call on a fresh DiskManager, with the table the listing tool prints
\* drawn from Tables and the outcome of every external tool chosen freely.
KnownDisks ==
    {disk_of_row(row) : row \in {r \in Devices : parse_size(r.size).exc = "none"}}

InitDisk ==
    /\ lsblk \in Tables
    /\ fs = EmptyFs
    /\ dirs = {}
    /\ InitRest

LsblkCmd == Cmd("lsblk", <<"-J", "-o", "NAME,SIZE,FSTYPE,MOUNTPOINT,HEALTH">>, <<>>, <<>>)

DetectDisks ==
    \E rc \in {0, 1} :
        /\ dm.op = "none"
        /\ \E r \in {detect_disks(lsblk, rc)} :
               dm' = [dm EXCEPT !.op = "detect_disks", !.table = lsblk, !.rc = rc,
                               !.exc = r.exc, !.disks = r.ret, !.cmds = <<LsblkCmd>>]
        /\ UNCHANGED <<fs, dirs, fh_log, vc, fh, cf, app, lg, app_log, dm_log, lsblk, win, pc, hist>>

MountDisk ==
    \E disk \in KnownDisks, mk \in MakedirsOutcomes, rc \in ExitCodes :
        /\ dm.op = "none"
        /\ \E r \in {mount_disk(disk, dm_log, dirs, mk, rc)} :
               /\ dm' = [dm EXCEPT !.op = "mount_disk", !.disk = disk, !.rc = rc,
                                  !.mk = mk, !.exc = r.exc, !.ret = r.ret,
                                  !.cmds = r.cmds]
               /\ dm_log' = r.logs
               /\ dirs' = r.dirs
        /\ UNCHANGED <<fs, fh_log, vc, fh, cf, app, lg, app_log, lsblk, win, pc, hist>>

UnmountDisk ==
    \E disk \in KnownDisks, rc \in ExitCodes :
        /\ dm.op = "none"
        /\ \E r \in {unmount_disk(disk, dm_log, rc)} :
               /\ dm' = [dm EXCEPT !.op = "unmount_disk", !.disk = disk, !.rc = rc,
                                  !.exc = r.exc, !.ret = r.ret, !.cmds = r.cmds]
               /\ dm_log' = r.logs
        /\ UNCHANGED <<fs, dirs, fh_log, vc, fh, cf, app, lg, app_log, lsblk, win, pc, hist>>

CheckFilesystem ==
    \E disk \in KnownDisks, rc \in ExitCodes, output \in Outputs :
        /\ dm.op = "none"
        /\ \E r \in {check_filesystem(disk, dm_log, rc, output)} :
               /\ dm' = [dm EXCEPT !.op = "check_filesystem", !.disk = disk,
                                  !.rc = rc, !.output = output, !.exc = r.exc,
                                  !.status = r.ret, !.cmds = r.cmds]
               /\ dm_log' = r.logs
        /\ UNCHANGED <<fs, dirs, fh_log, vc, fh, cf, app, lg, app_log, lsblk, win, pc, hist>>

NextDisk ==
    \/ DetectDisks
    \/ MountDisk
    \/ UnmountDisk
    \/ CheckFilesystem

SpecDisk == InitDisk /\ [][NextDisk]_vars

\* =========================================== DiskManager.get_disk_info alone
\* What lsblk -dno MODEL,SERIAL prints: a model and a serial, a model name of
\* two words, columns padded with two spaces, a device without a serial
LsOutputs ==
    { <<"TOSHIBA_DT01ACA050", Space, "1234ABCD", Space>>,
      <<"Samsung", Space, "SSD", Space, "S3Z9NB0K">>,
      <<"WDC", Space, Space, "WX11A">>,
      <<"QEMU_HARDDISK", Space>> }

PtOutputs == { <<"gpt", Space>>, <<>> }

\* Lines of smartctl -i -H -c -A
SmartLines ==
    { <<"===", Space, "START OF INFORMATION SECTION", Space, "===">>,
      <<"Device Model", Colon, Space, Space, "TOSHIBA DT01ACA050", Space>>,
      <<"SMART support is", Colon, Space, "Available">>,
      <<"SMART support is", Colon, Space, "Enabled">>,
      <<"Local Time is", Colon, Space, "12", Colon, "00">> }

SmartOutputs == SeqsUpTo(SmartLines, MaxSmartLines)

\* The disks asked about: one with a plain device name, one with a nested one
InfoDisks == {disk \in KnownDisks : disk.filesystem \in {"ntfs", "exfat"}}

InitInfo ==
    /\ lsblk = <<>>
    /\ fs = EmptyFs
    /\ dirs = {}
    /\ InitRest

GetDiskInfo ==
    \E disk \in InfoDisks, rc1 \in {0, 1}, rc2 \in {0, 1},
       rc3 \in {NotStarted, 0, 4}, lsout \in LsOutputs, ptout \in PtOutputs,
       smout \in SmartOutputs :
        /\ dm.op = "none"
        /\ \E r \in {get_disk_info(disk, dm_log, <<rc1, rc2, rc3>>, lsout, ptout,
                                   smout)} :
               /\ dm' = [dm EXCEPT !.op = "get_disk_info", !.disk = disk,
                                  !.rcs = <<rc1, rc2, rc3>>, !.lsout = lsout,
                                  !.ptout = ptout, !.lines = smout,
                                  !.exc = r.exc, !.info = r.ret, !.cmds = r.cmds]
               /\ dm_log' = r.logs
        /\ UNCHANGED <<fs, dirs, fh_log, vc, fh, cf, app, lg, app_log, lsblk, win, pc, hist>>

NextInfo == GetDiskInfo

SpecInfo == InitInfo /\ [][NextInfo]_vars


\* ========================================================= Application.run
\* The event loop.  window.read() is the GUI toolkit's: the model lets it
\* return any event the loop has a branch for, with any values, and any other
\* event.  Each action below is one pass of the loop: the read and the whole
\* handler of the event read.
LoopTables ==
    { << Row(<<"sda">>, Size(100, "G"), "ext4", "/", "PASSED"),
         Row(<<"sdb">>, Size(5000, "G"), "ntfs", Absent, "FAILED") >>,
      << Row(<<"cciss", "c0d0">>, Size(5120, "M"), "exfat", Null, "PASSED") >> }

Init ==
    /\ lsblk \in LoopTables
    /\ fs = EmptyFs
    /\ dirs = DestDirs
    /\ InitRest

\* The application's state as the methods of Application see it
Cur ==
    [fs |-> fs, dirs |-> dirs, fh_log |-> fh_log, app_log |-> app_log,
     dm_log |-> dm_log, win |-> win, calls |-> hist.calls, shown |-> hist.shown]

\* The next state after a pass of the loop that left the application in L
Becomes(L) ==
    /\ fs' = L.fs
    /\ dirs' = L.dirs
    /\ fh_log' = L.fh_log
    /\ app_log' = L.app_log
    /\ dm_log' = L.dm_log
    /\ win' = L.win
    /\ hist' = [hist EXCEPT !.events = @ + 1, !.calls = L.calls, !.shown = L.shown]
    /\ UNCHANGED <<vc, fh, cf, lg, dm, lsblk>>

\* What a call of Application.mount_disk or unmount_disk on disk did: its
\* result m, the entries it added to the application's log and the errors it
\* showed, when it started in L0
Called(op, disk, m, L0) ==
    [app0 EXCEPT !.op = op, !.disk = disk, !.dm = m.dm, !.exc = m.exc, !.ret = m.ret,
                 !.log = Appended(m.L.app_log, L0.app_log),
                 !.shown = Appended(m.L.shown, L0.shown), !.before = L0.win]

Reading == pc = "loop" /\ win.window /\ hist.events < MaxEvents

\* Application.check_sudo_privileges: subprocess.run(["sudo", "-n", "true"])
\* without check=True returns whatever the exit status is, and raises only
\* when the command cannot be started; rc is the exit status of sudo -n true,
\* 0 when the process may use sudo without a password
SudoExitCodes == {NotStarted, 0, 1}

check_sudo_privileges(logs, rc) ==
    IF rc = NotStarted
    THEN [ret |-> FALSE, logs |-> log_errors(logs, <<"no sudo", "SYS_001">>)]
    ELSE [ret |-> TRUE, logs |-> logs]

\* run, up to the loop: if not check_sudo_privileges(): popup_error, return;
\* create_window, detect_and_update_disks
Start ==
    \E sudo_rc \in SudoExitCodes, rc \in {0, 1} :
        /\ pc = "start"
        /\ \E c \in {check_sudo_privileges(app_log, sudo_rc)} :
             IF ~c.ret
             THEN /\ pc' = "returned"
                  /\ app_log' = c.logs
                  /\ hist' = [hist EXCEPT !.sudo = [called |-> TRUE, rc |-> sudo_rc,
                                                    ret |-> c.ret]]
                  /\ UNCHANGED <<fs, dirs, fh_log, vc, fh, cf, app, lg, dm_log, dm, lsblk, win>>
             ELSE \E L \in {detect_and_update_disks(
                                [Cur EXCEPT !.win.window = TRUE, !.app_log = c.logs],
                                lsblk, rc)} :
                      /\ pc' = "loop"
                      /\ app_log' = L.app_log
                      /\ win' = L.win
                      /\ hist' = [hist EXCEPT !.calls = L.calls, !.shown = L.shown,
                                              !.sudo = [called |-> TRUE, rc |-> sudo_rc,
                                                        ret |-> c.ret]]
                      /\ UNCHANGED <<fs, dirs, fh_log, vc, fh, cf, app, lg, dm_log, dm, lsblk>>

\* A mutant of save_logs that clears the log when the file cannot be written
save_logs_DropOnFailure(logs, written) ==
    IF written THEN [ret |-> TRUE, logs |-> logs, file |-> logs]
    ELSE [ret |-> FALSE, logs |-> <<>>, file |-> <<>>]

\* Logger.save_logs(path): the entries are written in order; when the file
\* cannot be written the error is logged and nothing is saved
save_logs(logs, written) ==
    IF written THEN [ret |-> TRUE, logs |-> logs, file |-> logs]
    ELSE [ret |-> FALSE, logs |-> log_error(logs, "save failed"), file |-> <<>>]

\* ------------------------------------------------------------ Logger alone
\* A Logger of its own, as the tests use it: log_info, log_error and
\* log_warning with any message, and save_logs to a path that can or cannot
\* be written.  calls records the calls made, before the logs at the last
\* save_logs.
MaxLogs == 3
Messages == {"disk detected", "DISK_002"}
Levels == {"INFO", "ERROR", "WARNING"}

log(logs, level, msg) ==
    CASE level = "INFO" -> log_info(logs, msg)
      [] level = "ERROR" -> log_error(logs, msg)
      [] level = "WARNING" -> log_warning(logs, msg)

LogCall ==
    \E level \in Levels, msg \in Messages :
        /\ Len(lg.calls) < MaxLogs
        /\ lg' = [lg EXCEPT !.logs = log(@, level, msg),
                            !.calls = Append(@, [op |-> level, msg |-> msg, ret |-> TRUE])]
        /\ UNCHANGED <<fs, dirs, fh_log, vc, fh, cf, app, app_log, dm_log, dm, lsblk, win, pc,
                       hist>>

SaveLogs ==
    \E written \in BOOLEAN :
        /\ Len(lg.calls) < MaxLogs
        /\ \E r \in {save_logs(lg.logs, written)} :
               lg' = [lg EXCEPT !.logs = r.logs,
                                !.calls = Append(@, [op |-> "save_logs", msg |-> "",
                                                     ret |-> r.ret]),
                                !.file = IF r.ret THEN r.file ELSE @,
                                !.before = lg.logs]
        /\ UNCHANGED <<fs, dirs, fh_log, vc, fh, cf, app, app_log, dm_log, dm, lsblk, win, pc,
                       hist>>

NextLogger == LogCall \/ SaveLogs

SpecLogger == Init /\ [][NextLogger]_vars

\* A mutant of the end of run that saves the log before the window is closed
run_exit_SaveFirst(L, written) ==
    [L EXCEPT !.calls = @ \o <<LC("save_logs", <<>>, <<>>, written),
                               LC("close", <<>>, <<>>, TRUE)>>,
              !.app_log = save_logs(@, written).logs]

\* The end of run, after the loop: self.window.close();
\* self.logger.save_logs("salvage_program.log")
run_exit(L, written) ==
    [L EXCEPT !.calls = @ \o <<LC("close", <<>>, <<>>, TRUE),
                               LC("save_logs", <<>>, <<>>, written)>>,
              !.app_log = save_logs(@, written).logs]

\* event in (sg.WIN_CLOSED, "-EXIT-"): break, and the end of run
EvExit ==
    \E event \in {"WIN_CLOSED", "-EXIT-"}, written \in BOOLEAN :
        /\ pc = "loop" /\ win.window
        /\ pc' = "closed"
        /\ \E L \in {run_exit(Cur, written)} :
               /\ hist' = [hist EXCEPT !.events = @ + 1, !.exit_at = hist.events + 1,
                                       !.calls = L.calls,
                                       !.saved = save_logs(app_log, written).file]
               /\ app_log' = L.app_log
        /\ UNCHANGED <<fs, dirs, fh_log, vc, fh, cf, app, lg, dm_log, dm, lsblk, win>>

\* "-HELP-": show_help; and the events the loop has no branch for
EvHelpOrOther ==
    \E event \in {"-HELP-", "-DISK_TREE-", "-SELECT-"} :
        /\ Reading
        /\ Becomes(Cur)
        /\ UNCHANGED <<app, pc>>

\* "-DISK_LIST-" with a non-empty values["-DISK_LIST-"]: its first line is
\* looked up among the freshly detected disks; a disk found becomes the
\* current disk and its filesystem is checked
Selections(table) ==
    {<<(<<"", "dev">> \o table[i].name), "line">> : i \in 1..Len(table)}
        \cup {<<(<<"", "dev", "gone">>), "line">>}

EvDiskList ==
    \E selected \in Selections(lsblk), rc \in {0, 1}, frc \in {0, 4},
       output \in {<<"clean">>, <<"errors">>} :
        /\ Reading
        /\ \E h \in {handle_disk_selection(Cur, lsblk, rc, selected)} :
               /\ app' = [app0 EXCEPT !.op = "handle_disk_selection",
                                      !.selected = selected, !.dm = h.dm,
                                      !.disks = h.disks, !.exc = h.exc,
                                      !.ret = h.ret.found, !.found = h.ret.disk,
                                      !.log = Appended(h.L.app_log, app_log),
                                      !.shown = Appended(h.L.shown, hist.shown)]
               /\ IF h.ret.found
                  THEN Becomes(check_disk_status(
                                   [h.L EXCEPT !.win.current_disk = h.ret.disk],
                                   h.ret.disk, frc, output))
                  ELSE Becomes(h.L)
        /\ UNCHANGED pc

\* "-MOUNT-": if there is a current disk it is mounted, and when that
\* succeeded the file list is refreshed
EvMount ==
    \E mk \in MakedirsOutcomes, rc \in ExitCodes :
        /\ Reading
        /\ IF win.current_disk = NoDisk THEN Becomes(Cur) /\ UNCHANGED app
           ELSE \E m \in {app_mount_disk(Cur, win.current_disk, mk, rc)} :
                    \E L \in {IF m.ret THEN update_file_list(m.L, win.current_disk)
                                      ELSE m.L} :
                        /\ app' = [Called("mount_disk", win.current_disk, m, Cur)
                                      EXCEPT !.after = L.win]
                        /\ Becomes(L)
        /\ UNCHANGED pc

\* "-UNMOUNT-": if there is a current disk it is unmounted
EvUnmount ==
    \E rc \in ExitCodes :
        /\ Reading
        /\ IF win.current_disk = NoDisk THEN Becomes(Cur) /\ UNCHANGED app
           ELSE \E m \in {app_unmount_disk(Cur, win.current_disk, rc)} :
                    /\ app' = [Called("unmount_disk", win.current_disk, m, Cur)
                                  EXCEPT !.after = m.L.win]
                    /\ Becomes(m.L)
        /\ UNCHANGED pc

\* The keys of the rows of the file tree
RECURSIVE tree_keys(_)
tree_keys(files) ==
    IF files = <<>> THEN <<>>
    ELSE <<TreeKey(Head(files).path)>> \o tree_keys(Tail(files))

\* "-FILE_TREE-": a non-empty values["-FILE_TREE-"], the keys of the selected
\* rows, becomes the selection
EvFileTree ==
    \E n \in 0..Len(win.file_tree) :
        /\ Reading
        /\ LET values == SubSeq(tree_keys(win.file_tree), 1, n)
           IN  IF values # <<>>
               THEN Becomes([Cur EXCEPT !.win.selected_files = values])
               ELSE Becomes(Cur)
        /\ UNCHANGED <<app, pc>>

\* "-SELECT_ALL-": the children of the file tree element, when there are any
EvSelectAll ==
    /\ Reading
    /\ IF win.file_tree # <<>>
       THEN Becomes([Cur EXCEPT !.win.selected_files = tree_keys(win.file_tree)])
       ELSE Becomes(Cur)
    /\ UNCHANGED <<app, pc>>

\* "-DESELECT-"
EvDeselect ==
    /\ Reading
    /\ Becomes([Cur EXCEPT !.win.selected_files = <<>>])
    /\ UNCHANGED <<app, pc>>

\* The state after self.copy_files(...) of the "-COPY-" branch has returned R
copy_started(L, R) ==
    [L |-> [L EXCEPT !.fs = R.fs, !.fh_log = R.fh_log, !.app_log = R.app_log,
                     !.shown = @ \o R.shown],
     started |-> TRUE, calls |-> R.calls]

\* A mutant of the "-COPY-" branch that does not look at the destination
copy_event_AnyDestination(L, dest) ==
    IF L.win.selected_files = <<>>
    THEN [L |-> show_error(L, "select files"), started |-> FALSE, calls |-> <<>>]
    ELSE copy_started(L, app_copy_files(CopyState(L.fs, L.fh_log, L.app_log), L.dirs,
                                        L.win.selected_files, dest,
                                        [i \in 1..Len(L.win.selected_files) |-> "ok"]))

\* The "-COPY-" branch: an error and continue when nothing is selected or no
\* destination is given, else copy_files(selected_files, values["-DEST_PATH-"])
copy_event(L, dest) ==
    IF L.win.selected_files = <<>>
    THEN [L |-> show_error(L, "select files"), started |-> FALSE, calls |-> <<>>]
    ELSE IF dest = <<>>
    THEN [L |-> show_error(L, "give a destination"), started |-> FALSE, calls |-> <<>>]
    ELSE copy_started(L, app_copy_files(CopyState(L.fs, L.fh_log, L.app_log), L.dirs,
                                        L.win.selected_files, dest,
                                        [i \in 1..Len(L.win.selected_files) |-> "ok"]))

EvCopy ==
    \E dest \in {<<>>} \cup DestDirs :
        /\ Reading
        /\ \E c \in {copy_event(Cur, dest)} :
               /\ app' = [app0 EXCEPT !.op = "-COPY-", !.files = win.selected_files,
                                      !.destination = dest, !.ret = c.started,
                                      !.calls = c.calls,
                                      !.shown = Appended(c.L.shown, hist.shown),
                                      !.before = win, !.after = c.L.win,
                                      !.at = hist.events + 1]
               /\ Becomes(c.L)
        /\ UNCHANGED pc

Next ==
    \/ Start
    \/ EvExit
    \/ EvHelpOrOther
    \/ EvDiskList
    \/ EvMount
    \/ EvUnmount
    \/ EvFileTree
    \/ EvSelectAll
    \/ EvDeselect
    \/ EvCopy

Spec == Init /\ [][Next]_vars

\* ------------------------------------------- the loop with a mounted disk
\* The loop from the point where run has started with sudo, the disks were
\* detected, a disk of the list was selected and checked, and a -MOUNT- event
\* mounted it and listed its files: the state those handlers leave, computed
\* with them.  hist.events counts the events read from that point on.
Started(table) ==
    detect_and_update_disks(
        [fs |-> EmptyFs, dirs |-> DestDirs, fh_log |-> <<>>, app_log |-> <<>>,
         dm_log |-> <<>>, win |-> [win0 EXCEPT !.window = TRUE], calls |-> <<>>,
         shown |-> <<>>], table, 0)

Selected(table, selected) ==
    LET h == handle_disk_selection(Started(table), table, 0, selected)
    IN  check_disk_status([h.L EXCEPT !.win.current_disk = h.ret.disk], h.ret.disk, 0,
                          <<"clean">>)

Mounted(table, selected) ==
    LET L == Selected(table, selected)
    IN  update_file_list(app_mount_disk(L, L.win.current_disk, "ok", 0).L,
                         L.win.current_disk)

InitMounted ==
    /\ lsblk \in LoopTables
    /\ \E selected \in Selections(lsblk) :
          /\ Selected(lsblk, selected).win.current_disk # NoDisk
          /\ \E L \in {Mounted(lsblk, selected)} :
                /\ fs = L.fs
                /\ dirs = L.dirs
                /\ fh_log = L.fh_log
                /\ app_log = L.app_log
                /\ dm_log = L.dm_log
                /\ win = L.win
                /\ hist = [hist0 EXCEPT !.calls = L.calls, !.shown = L.shown,
                                        !.sudo = [called |-> TRUE, rc |-> 0, ret |-> TRUE]]
    /\ pc = "loop"
    /\ vc = vc0
    /\ fh = fh0
    /\ cf = cf0
    /\ app = app0
    /\ lg = lg0
    /\ dm = dm0

NextMounted ==
    \/ EvExit
    \/ EvHelpOrOther
    \/ EvDiskList
    \/ EvMount
    \/ EvUnmount
    \/ EvFileTree
    \/ EvSelectAll
    \/ EvDeselect
    \/ EvCopy

SpecMounted == InitMounted /\ [][NextMounted]_vars


\* ------------------------------------------------- the keys of the window
\* MainWindow.create_layout: the key of every element of the layout
LayoutKeys ==
    {"-DISK_TREE-", "-DISK_STATUS-", "-FILE_TREE-", "-SELECT-", "-SELECT_ALL-",
     "-DESELECT-", "-MOUNT-", "-UNMOUNT-", "-COPY-", "-DEST_PATH-", "-BROWSE-",
     "-PROGRESS-", "-STATUS-", "-HELP-", "-EXIT-"}

\* The elements of the layout that produce an event for window.read: the two
\* Trees (enable_events=True) and the Buttons
LayoutEvents ==
    {"-DISK_TREE-", "-FILE_TREE-", "-SELECT-", "-SELECT_ALL-", "-DESELECT-",
     "-MOUNT-", "-UNMOUNT-", "-COPY-", "-HELP-", "-EXIT-"}

\* The key create_layout gives to the Tree of the disk list
DiskTreeKey == "-DISK_TREE-"

\* The key MainWindow.update_disk_list writes the lines of the disks to
UpdateDiskListKey == "-DISK_LIST-"

\* The event key of the disk-selection branch of Application.run
DiskListEventKey == "-DISK_LIST-"

\* The lines the program has written to the element of a key: only
\* update_disk_list writes lines, and it writes them to UpdateDiskListKey
ElementValues(W, key) == IF key = UpdateDiskListKey THEN W.disk_list ELSE <<>>

\* The loop when window.read returns only the events the elements of the
\* layout produce (and the closing of the window): DiskListEventKey is the key
\* of no element, so its branch is never entered
NextGui ==
    \/ Start
    \/ EvExit
    \/ EvHelpOrOther
    \/ EvMount
    \/ EvUnmount
    \/ EvFileTree
    \/ EvSelectAll
    \/ EvDeselect
    \/ EvCopy

SpecGui == Init /\ [][NextGui]_vars


\* ================================================================== claims
\* The digest of a whole content, fed to the hash in one piece
WholeHash(content) == md5_update_chunk(7, content)

\* What a verify_copy call should answer in the file system it ran in (it
\* changes no file): both paths exist, their sizes are equal, both can be
\* read, and their contents hash to the same digest.
ShouldVerify(f, source, destination) ==
    /\ f[source].exists
    /\ f[destination].exists
    /\ Len(f[source].content) = Len(f[destination].content)
    /\ f[source].readable
    /\ f[destination].readable
    /\ WholeHash(f[source].content) = WholeHash(f[destination].content)

\* C1: FileHandler.verify_copy(source, destination) returns True exactly when
\* both paths exist, their sizes are equal and their streamed content hashes
\* are equal; in every other case (a missing source, a missing destination, a
\* size mismatch, a hash mismatch, a read error) it returns False, and it
\* never raises.
C1_VerifyCopyExact ==
    vc.called =>
        /\ ~vc.raised
        /\ vc.ret = ShouldVerify(fs, vc.source, vc.destination)

\* C1 witness: a verification of two distinct files of equal content, longer
\* than one chunk of the streamed hash, answered True
C1_Witness ==
    /\ vc.called
    /\ vc.ret
    /\ vc.source # vc.destination
    /\ Len(fs[vc.source].content) > ChunkSize

\* The calls of one kind in the run's call sequence
IsCopy(c) == c.op = "copy_files"
IsVerify(c) == c.op = "verify_copy"

C3_ClassifiedAfterVerify ==
    cf.called =>
        \A k \in 1..Len(cf.calls) :
            IsVerify(cf.calls[k]) =>
                \E j \in (k + 1)..Len(cf.calls) :
                    /\ cf.calls[j].op = "handle_corrupted_files"
                    /\ cf.calls[j].src = cf.calls[k].src

\* The external command of a mount_disk or unmount_disk call ran and ended
\* with an exit status
ToolExited ==
    /\ dm.rc # NotStarted
    /\ dm.op = "mount_disk" => dm.mk = "ok"

\* C5: DiskManager.mount_disk and unmount_disk return True exactly when their
\* external command (mount / umount on the disk's device path) exits with
\* status zero, and return False, without raising, when it exits non-zero.
C5_ExitCodeIsResult ==
    dm.op \in {"mount_disk", "unmount_disk"} =>
        LET tool == IF dm.op = "mount_disk" THEN "mount" ELSE "umount"
            last == dm.cmds[Len(dm.cmds)]
        IN  /\ (dm.exc = "none" /\ dm.ret) <=> (ToolExited /\ dm.rc = 0)
            /\ ToolExited /\ dm.rc # 0 => dm.exc = "none" /\ ~dm.ret
            /\ ToolExited => last.tool = tool /\ last.dev = dm.disk.device_path

\* C5 witness: a mount whose tool exited with status 32 returned False
C5_Witness ==
    /\ dm.op = "mount_disk"
    /\ ToolExited
    /\ dm.rc = 32
    /\ dm.exc = "none"
    /\ ~dm.ret

\* C7: DiskManager.check_filesystem dispatches on the filesystem-type string:
\* "ext4" runs fsck.ext4 on the device path, "ntfs" runs ntfsfix on the device
\* path, and any other type runs no external tool and returns an inconsistent
\* status whose details say the filesystem is unsupported.
C7_DispatchOnFilesystem ==
    dm.op = "check_filesystem" =>
        /\ dm.disk.filesystem = "ext4" =>
              /\ Len(dm.cmds) = 1
              /\ dm.cmds[1].tool = "fsck.ext4"
              /\ dm.cmds[1].dev = dm.disk.device_path
        /\ dm.disk.filesystem = "ntfs" =>
              /\ Len(dm.cmds) = 1
              /\ dm.cmds[1].tool = "ntfsfix"
              /\ dm.cmds[1].dev = dm.disk.device_path
        /\ dm.disk.filesystem \notin {"ext4", "ntfs"} =>
              /\ dm.cmds = <<>>
              /\ dm.exc = "none"
              /\ ~dm.status.is_consistent
              /\ dm.status.details = UnsupportedText

\* C7 witness: a check of an exfat disk, which ran no tool
C7_Witness ==
    /\ dm.op = "check_filesystem"
    /\ dm.disk.filesystem = "exfat"
    /\ dm.cmds = <<>>
    /\ dm.status.details = UnsupportedText

\* C8: DiskManager.check_filesystem reports is_consistent=True only when the
\* check tool exited with status zero and, for ext4, its output is classified
\* as clean; whenever the tool exits non-zero (ext4 or ntfs) the result is
\* is_consistent=False with details equal to the tool's output, and the call
\* returns.
C8_ConsistentOnlyOnSuccess ==
    dm.op = "check_filesystem" =>
        /\ dm.exc = "none" /\ dm.status.is_consistent =>
              /\ dm.disk.filesystem \in {"ext4", "ntfs"}
              /\ dm.rc = 0
              /\ dm.disk.filesystem = "ext4" => has_clean(dm.output)
        /\ dm.disk.filesystem \in {"ext4", "ntfs"} /\ dm.rc \notin {0, NotStarted} =>
              /\ dm.exc = "none"
              /\ ~dm.status.is_consistent
              /\ dm.status.details = dm.output

\* C8 witness: fsck.ext4 exited with status 1 having printed something, and
\* the status carries that output
C8_Witness ==
    /\ dm.op = "check_filesystem"
    /\ dm.disk.filesystem = "ext4"
    /\ dm.rc = 1
    /\ dm.output # <<>>
    /\ ~dm.status.is_consistent
    /\ dm.status.details = dm.output

\* C9: when the listing tool succeeds, DiskManager.detect_disks returns exactly
\* one Disk record for every device of the tool's table, in the table's order,
\* with device_path "/dev/<name>", the listed filesystem and health tag, and,
\* for the suffixes K/M/G/T, size equal to the listed number times
\* 1024^1/2/3/4.
C9_OneDiskPerRow ==
    dm.op = "detect_disks" /\ dm.rc = 0 =>
        /\ dm.exc = "none"
        /\ Len(dm.disks) = Len(dm.table)
        /\ \A i \in 1..Len(dm.disks) :
              LET row == dm.table[i]
                  disk == dm.disks[i]
              IN  /\ disk.device_path = <<"", "dev">> \o row.name
                  /\ disk.filesystem = get(row.fstype, "")
                  /\ disk.health_status = get(row.health, "")
                  /\ row.size.unit \in {"K", "M", "G", "T"} =>
                        BigMul(disk.size, 10) =
                            BigOf(row.size.tenths, units[row.size.unit])

\* C10: in the records detect_disks returns, a device's mounted flag is True
\* exactly when the device has a mount point.
C10_MountedIffMountpoint ==
    dm.op = "detect_disks" /\ dm.exc = "none" =>
        \A i \in 1..Len(dm.disks) :
            dm.disks[i].mounted <=> dm.table[i].mountpoint \notin {Absent, Null}

\* A successful call of the given tool on the device, in the loop's history
Did(c, op, dev) == c.op = op /\ c.ok /\ c.dev = dev

\* C4: in every run of the event loop, the filesystem check of a disk
\* (DiskManager.check_filesystem) is performed only after a detection and
\* after that disk has been successfully mounted, and before it is unmounted.
C4_CheckOnlyWhileMounted ==
    \A k \in 1..Len(hist.calls) :
        hist.calls[k].op = "check_filesystem" =>
            /\ \E j \in 1..(k - 1) : hist.calls[j].op = "detect_disks" /\ hist.calls[j].ok
            /\ \E j \in 1..(k - 1) :
                  /\ Did(hist.calls[j], "mount", hist.calls[k].dev)
                  /\ \A m \in (j + 1)..(k - 1) :
                        ~Did(hist.calls[m], "umount", hist.calls[k].dev)

\* C6: DiskManager.mount_disk creates the mount point directory
\* /mnt/<last component of the device path> just before it invokes the mount
\* tool on that directory, and the file listing the application performs
\* after a successful mount reads exactly that directory.
C6_MountPointCreatedThenListed ==
    \A k \in 1..Len(hist.calls) :
        LET c == hist.calls[k]
        IN  /\ c.op = "mount" =>
                  /\ k > 1
                  /\ hist.calls[k - 1].op = "makedirs"
                  /\ hist.calls[k - 1].ok
                  /\ hist.calls[k - 1].dir = c.dir
                  /\ c.dir = <<"", "mnt", c.dev[Len(c.dev)]>>
            /\ c.op = "list_files" =>
                  /\ k > 1
                  /\ hist.calls[k - 1].op = "mount"
                  /\ hist.calls[k - 1].ok
                  /\ c.dir = hist.calls[k - 1].dir

\* C6 witness: /dev/cciss/c0d0 was mounted on /mnt/c0d0 and /mnt/c0d0 listed
C6_Witness ==
    \E k \in 2..Len(hist.calls) :
        /\ hist.calls[k].op = "list_files"
        /\ hist.calls[k].dir = <<"", "mnt", "c0d0">>
        /\ Did(hist.calls[k - 1], "mount", <<"", "dev", "cciss", "c0d0">>)
        /\ <<"", "mnt", "c0d0">> \in dirs

\* The key and the value of a colon-delimited line: the text before its
\* first colon and the text after it, without surrounding spaces
HasColon(line) == \E i \in 1..Len(line) : line[i] = Colon
KeyOf(line) == strip(SubSeq(line, 1, find(line, Colon, 1) - 1))
ValueOf(line) == strip(SubSeq(line, find(line, Colon, 1) + 1, Len(line)))

\* The SMART tool of a get_disk_info call ran and ended with an exit status
SmartExited ==
    /\ dm.op = "get_disk_info"
    /\ Len(dm.cmds) = 3
    /\ dm.rcs[3] # NotStarted

\* The tools of a get_disk_info call are, in order, the model/serial query,
\* the partition-table query and the SMART tool, each on the disk's device
InfoQueriesInOrder ==
    /\ Len(dm.cmds) <= 3
    /\ \A i \in 1..Len(dm.cmds) :
          /\ dm.cmds[i].tool = <<"lsblk", "blkid", "smartctl">>[i]
          /\ dm.cmds[i].dev = dm.disk.device_path

\* After a failed SMART tool the DiskInfo carries the model, the serial and
\* the partition table already obtained, and an empty smart_status
InfoWithoutSmart ==
    SmartExited /\ dm.rcs[3] # 0 =>
        /\ dm.exc = "none"
        /\ dm.info.model \o <<Space>> \o dm.info.serial = strip(dm.lsout)
        /\ dm.info.partition_table = strip(dm.ptout)
        /\ DOMAIN dm.info.smart_status = {}

\* C11 as stated: get_disk_info runs the model/serial query, then the
\* partition-table query, then the SMART tool; when the SMART tool exits
\* non-zero it returns a DiskInfo with the model, serial and partition table
\* and an empty smart_status, and does not raise; when the SMART tool
\* succeeds smart_status maps each colon-delimited line's key to its value.
C11_EveryLineMapped ==
    dm.op = "get_disk_info" =>
        /\ InfoQueriesInOrder
        /\ InfoWithoutSmart
        /\ SmartExited /\ dm.rcs[3] = 0 =>
              /\ dm.exc = "none"
              /\ \A i \in 1..Len(dm.lines) :
                    HasColon(dm.lines[i]) =>
                        /\ KeyOf(dm.lines[i]) \in DOMAIN dm.info.smart_status
                        /\ dm.info.smart_status[KeyOf(dm.lines[i])] =
                              ValueOf(dm.lines[i])

\* C11 as amended: as above, but when the SMART tool succeeds smart_status has
\* exactly the keys of the colon-delimited lines and maps each key to the
\* value of the last line that has that key.
C11_LastLineOfKeyMapped ==
    dm.op = "get_disk_info" =>
        /\ InfoQueriesInOrder
        /\ InfoWithoutSmart
        /\ SmartExited /\ dm.rcs[3] = 0 =>
              /\ dm.exc = "none"
              /\ DOMAIN dm.info.smart_status =
                    {KeyOf(dm.lines[i]) : i \in {j \in 1..Len(dm.lines) :
                                                    HasColon(dm.lines[j])}}
              /\ \A i \in 1..Len(dm.lines) :
                    /\ HasColon(dm.lines[i])
                    /\ \A j \in (i + 1)..Len(dm.lines) :
                          HasColon(dm.lines[j]) =>
                              KeyOf(dm.lines[j]) # KeyOf(dm.lines[i])
                    => dm.info.smart_status[KeyOf(dm.lines[i])] =
                          ValueOf(dm.lines[i])

\* C11 witness: the SMART tool succeeded and printed two lines with the same
\* key and different values; the mapping holds the value of the second
C11_Witness ==
    /\ SmartExited
    /\ dm.rcs[3] = 0
    /\ Len(dm.lines) = 2
    /\ HasColon(dm.lines[1])
    /\ HasColon(dm.lines[2])
    /\ KeyOf(dm.lines[1]) = KeyOf(dm.lines[2])
    /\ ValueOf(dm.lines[1]) # ValueOf(dm.lines[2])
    /\ dm.info.smart_status[KeyOf(dm.lines[2])] = ValueOf(dm.lines[2])

\* The log entries of one level
IsWarning(e) == e.level = "WARNING"
IsError(e) == e.level = "ERROR"

\* The files of the directory tree under path
FilesUnder(f, path) == {p \in AllPaths : IsUnder(p, path) /\ f[p].exists}

\* C12: FileHandler.list_files(path) on an existing directory returns exactly
\* one File record for every file anywhere in the directory tree under path,
\* each with its size, status "normal" and is_corrupted False; a file whose
\* size cannot be read is skipped with a warning and does not prevent the
\* other files from being returned.
C12_OneFilePerFileOfTree ==
    fh.op = "list_files" /\ fh.path \in dirs =>
        LET want == FilesUnder(fs, fh.path) \ fh.statfail
        IN  /\ fh.exc = "none"
            /\ \A p \in want :
                  Cardinality({i \in 1..Len(fh.listed) : fh.listed[i].path = p}) = 1
            /\ \A i \in 1..Len(fh.listed) :
                  /\ fh.listed[i].path \in want
                  /\ fh.listed[i].class = "File"
                  /\ fh.listed[i].size = Len(fs[fh.listed[i].path].content)
                  /\ fh.listed[i].status = "normal"
                  /\ ~fh.listed[i].is_corrupted
            /\ Len(SelectSeq(fh_log, IsWarning)) =
                  Cardinality(FilesUnder(fs, fh.path) \cap fh.statfail)

\* C13: FileHandler.list_files called with a path that does not exist, and
\* FileHandler.get_file_attributes called with a file that does not exist,
\* raise FileNotFoundError to the caller and log an error.
C13_MissingPathRaises ==
    /\ fh.op = "list_files" /\ fh.path \notin dirs =>
          /\ fh.exc = "FileNotFoundError"
          /\ SelectSeq(fh_log, IsError) # <<>>
    /\ fh.op = "get_file_attributes" /\ ~fs[fh.path].exists =>
          /\ fh.exc = "FileNotFoundError"
          /\ SelectSeq(fh_log, IsError) # <<>>

\* Where copy_files puts the i-th file of its list
DestOf(i) == join(fh.destination, basename(fh.files[i].path))

\* C14: FileHandler.copy_files(files, destination) returns True exactly when
\* every file of the list was copied to destination/<basename of its path>;
\* when copying a file fails it returns False without raising, the files
\* after the failing one are not attempted, and the copies already made are
\* left in place.
C14_CopyFilesAllOrStop ==
    fh.op = "copy_files" =>
        LET n == Len(fh.files)
        IN  /\ fh.exc = "none"
            /\ fh.ret <=> fh.made = n
            /\ fh.ret =>
                  \A i \in 1..n :
                      /\ fs[DestOf(i)].exists
                      /\ \E j \in 1..n :
                            /\ DestOf(j) = DestOf(i)
                            /\ fs[DestOf(i)].content \in
                                  {fh.before[fh.files[j].path].content,
                                   Flip(fh.before[fh.files[j].path].content)}
            /\ ~fh.ret =>
                  /\ fh.tried = fh.made + 1
                  /\ fh.tried <= n
                  /\ \A i \in 1..fh.made : fs[DestOf(i)].exists
                  /\ \A p \in AllPaths :
                        p \notin {DestOf(i) : i \in 1..fh.tried} =>
                            fs[p] = fh.before[p]
            /\ SelectSeq(fh_log, IsError) # <<>> <=> ~fh.ret

\* C14 witness: the second of two files could not be copied; the call
\* returned False and the first file's copy is in the destination
C14_Witness ==
    /\ fh.op = "copy_files"
    /\ Len(fh.files) = 2
    /\ ~fh.ret
    /\ fh.made = 1
    /\ DestOf(1) # DestOf(2)
    /\ fs[DestOf(1)].exists
    /\ ~fh.before[DestOf(1)].exists

\* The FILE_006 errors returned about the i-th file of the input
ErrorsAbout(i) ==
    {k \in 1..Len(fh.errors) :
        /\ fh.errors[k].error_code = 6
        /\ fh.errors[k].message[2] = fh.files[i].path}

\* The i-th file was flagged: is_corrupted is True and an error was returned
Flagged(i) == fh.listed[i].is_corrupted /\ ErrorsAbout(i) # {}

\* The magic number a file of the given extension starts with, for the
\* extensions of the formats the check knows; other extensions have none
MagicOfExt(ext) ==
    CASE ext = ".png" -> {"89 PNG 0D 0A 1A 0A"}
      [] ext \in {".jpg", ".jpeg"} -> {"FF D8 FF"}
      [] ext = ".gif" -> {"GIF87a", "GIF89a"}
      [] ext = ".pdf" -> {"%PDF"}
      [] ext = ".zip" -> {"PK 03 04", "PK 05 06", "PK 07 08"}
      [] OTHER -> {}

AllMagic ==
    {"89 PNG 0D 0A 1A 0A", "FF D8 FF", "GIF87a", "GIF89a", "%PDF",
     "PK 03 04", "PK 05 06", "PK 07 08"}

\* The leading bytes of the file at path p agree with p's extension: they are
\* a magic number of the extension's format, or the extension has no magic
\* number and the bytes are none
Agrees(p) ==
    IF MagicOfExt(ext_of(p)) # {}
    THEN fs[p].content[1] \in MagicOfExt(ext_of(p))
    ELSE fs[p].content[1] \notin AllMagic

\* C15: handle_corrupted_files flags as corrupted (is_corrupted set to True
\* and a FILE_006 error returned) every file that is zero-length and every
\* file whose leading bytes disagree with its extension, and flags no file
\* that is non-empty, readable and whose leading bytes agree with its
\* extension.
C15_FlagsEmptyAndMismatched ==
    fh.op = "handle_corrupted_files" =>
        \A i \in 1..Len(fh.files) :
            LET p == fh.files[i].path
            IN  /\ fs[p].exists /\ fs[p].content = <<>> => Flagged(i)
                /\ /\ fs[p].exists
                   /\ fs[p].content # <<>>
                   /\ fs[p].readable
                   /\ ~Agrees(p)
                   => Flagged(i)
                /\ /\ fs[p].exists
                   /\ fs[p].content # <<>>
                   /\ fs[p].readable
                   /\ ~fs[p].badblock
                   /\ Agrees(p)
                   => ~Flagged(i)

\* C16: handle_corrupted_files returns exactly one FileError with code
\* FILE_006 for each file of its input that is marked as corrupted
\* (is_corrupted True), so that n such files yield n errors.
C16_OneErrorPerCorruptedFile ==
    /\ fh.op = "handle_corrupted_files"
    /\ \A i, j \in 1..Len(fh.files) : i # j => fh.files[i].path # fh.files[j].path
    =>
    /\ \A k \in 1..Len(fh.errors) : fh.errors[k].error_code = 6
    /\ \A i \in 1..Len(fh.files) :
          fh.listed[i].is_corrupted => Cardinality(ErrorsAbout(i)) = 1
    /\ Len(fh.errors) =
          Cardinality({i \in 1..Len(fh.files) : fh.listed[i].is_corrupted})


\* An error entry among the entries a call added to the application's log
LoggedError(entries) == \E i \in 1..Len(entries) : IsError(entries[i])

MountCalled == app.op \in {"mount_disk", "unmount_disk"}

\* C17: Application.mount_disk and Application.unmount_disk return True exactly
\* when the DiskManager operation returned True; in every failure case (the
\* DiskManager operation returned False or raised) they return False and have
\* recorded an error in the application's log; no exception leaves them.
C17_MountResultAndErrorLogged ==
    MountCalled =>
        /\ app.exc = "none"
        /\ app.ret <=> (app.dm.exc = "none" /\ app.dm.ret)
        /\ ~app.ret => LoggedError(app.log)


\* The copies of a run that FileHandler.copy_files reported failed
IsFailedCopy(c) == IsCopy(c) /\ ~c.ret

\* C18: when copying a file fails inside Application.copy_files, because
\* FileHandler.copy_files returned False or because an exception was raised,
\* an error is recorded in the application's log and an error is shown to the
\* user: one of each for every failure; and no exception leaves copy_files.
C18_CopyFailureLoggedAndShown ==
    app.op = "copy_files" =>
        LET failures == Len(SelectSeq(app.calls, IsFailedCopy))
                            + (IF app.caught # "none" THEN 1 ELSE 0)
        IN  /\ app.exc = "none"
            /\ Len(SelectSeq(app.log, IsError)) >= failures
            /\ Len(app.shown) >= failures

\* C18 witness: a run in which one copy was reported failed and then an
\* exception was raised inside copy_files
C18_Witness ==
    /\ app.op = "copy_files"
    /\ Len(SelectSeq(app.calls, IsFailedCopy)) = 1
    /\ app.caught # "none"
    /\ Len(app.shown) = 2


\* C19: check_sudo_privileges returns True when the process has sudo
\* privileges (sudo -n true exits with 0) and False when it has not; when it
\* returned False, run has returned without creating a window, detecting
\* disks or reading an event.
C19_SudoRequired ==
    hist.sudo.called =>
        /\ hist.sudo.ret <=> (hist.sudo.rc = 0)
        /\ ~hist.sudo.ret =>
              /\ pc = "returned"
              /\ ~win.window
              /\ hist.calls = <<>>
              /\ hist.events = 0


\* The positions of the freshly detected disks with the selected device path
Matching == {i \in 1..Len(app.disks) : app.disks[i].device_path = Head(app.selected)}

\* C20: handle_disk_selection returns the freshly detected disk whose device
\* path is the device path at the start of the selection string; it returns
\* None when no detected disk has that path and when the detection failed;
\* it never raises.
C20_SelectionFindsDetectedDisk ==
    app.op = "handle_disk_selection" =>
        /\ app.exc = "none"
        /\ app.dm.exc # "none" => ~app.ret
        /\ app.dm.exc = "none" =>
              IF Matching = {} THEN ~app.ret /\ app.found = NoDisk
              ELSE /\ app.ret
                   /\ \E i \in Matching : app.found = app.disks[i]
                   /\ app.found \in {disk_of_row(lsblk[k]) : k \in 1..Len(lsblk)}

\* C20 witness: of two detected disks the second was selected and returned,
\* and a selection failed because the detection failed
C20_Witness ==
    /\ app.op = "handle_disk_selection"
    /\ Len(app.disks) = 2
    /\ app.ret
    /\ app.found = app.disks[2]
    /\ app.found # app.disks[1]

C20_WitnessDetectionFailed ==
    /\ app.op = "handle_disk_selection"
    /\ app.dm.exc # "none"
    /\ ~app.ret


\* C21: once a window-closed or -EXIT- event has been read, whatever events
\* preceded it, no further event is read, the window has been closed and
\* after that, as the last thing run does, the log has been saved; each pass
\* of the loop handles the event it read before the next one is read.
C21_ExitEndsLoop ==
    hist.exit_at # 0 =>
        LET n == Len(hist.calls)
        IN  /\ pc = "closed"
            /\ hist.events = hist.exit_at
            /\ n >= 2
            /\ hist.calls[n - 1].op = "close"
            /\ hist.calls[n].op = "save_logs"
            /\ \A k \in 1..(n - 2) : hist.calls[k].op \notin {"close", "save_logs"}
            /\ hist.calls[n].ok => hist.saved = app_log

\* C21 witness: the exit event was the third event read, after a mount
C21_Witness ==
    /\ hist.exit_at = 3
    /\ pc = "closed"
    /\ \E k \in 1..Len(hist.calls) : hist.calls[k].op = "mount"
    /\ hist.calls[Len(hist.calls)].ok


\* The calls of log_info, log_error and log_warning among the calls made
IsLogCall(c) == c.op \in Levels
IsFailedSave(c) == c.op = "save_logs" /\ ~c.ret

\* C22: after any sequence of log_info / log_error / log_warning calls the
\* Logger holds one entry per call, in call order, with the call's level and
\* message; save_logs writes all entries in that order and returns True, and
\* when the file cannot be written it returns False, raises nothing and
\* every entry held before is still held, in place.
C22_OneEntryPerCallAndSaved ==
    LET logged == SelectSeq(lg.calls, IsLogCall)
        n == Len(lg.calls)
    IN  /\ SelectSeq(lg.calls, IsFailedSave) = <<>> =>
              /\ Len(lg.logs) = Len(logged)
              /\ \A i \in 1..Len(logged) :
                     /\ lg.logs[i].level = logged[i].op
                     /\ lg.logs[i].msg = logged[i].msg
        /\ (n > 0 /\ lg.calls[n].op = "save_logs") =>
              /\ lg.exc = "none"
              /\ Len(lg.logs) >= Len(lg.before)
              /\ SubSeq(lg.logs, 1, Len(lg.before)) = lg.before
              /\ lg.calls[n].ret => lg.file = lg.logs /\ lg.logs = lg.before

\* C22 witness: two entries of different levels were logged, a save failed
\* and the two entries are still held
C22_Witness ==
    /\ Len(lg.calls) = 3
    /\ lg.calls[1].op = "INFO"
    /\ lg.calls[2].op = "ERROR"
    /\ IsFailedSave(lg.calls[3])
    /\ Len(lg.logs) = 3


\* A copy run that finished and reported no copy error and no verification
\* error
FinishedClean == cf.called /\ cf.completed /\ cf.shown = <<>>

\* The destination directory holds a file with the content of source
HasCopyOf(source) ==
    \E p \in AllPaths :
        /\ dirname(p) = cf.destination
        /\ exists(fs, p)
        /\ fs[p].content = fs[source].content

\* C23: when Application.copy_files finishes having reported no copy error
\* and no verification error, the destination directory contains, for every
\* file of the given list, a file whose content is that of the source file;
\* the list may hold files of different directories.
C23_EveryFileInDestination ==
    FinishedClean => \A i \in 1..Len(cf.files) : HasCopyOf(cf.files[i].path)


\* The file was copied and its copy passed the verification
CopiedAndVerified(file) ==
    \E k \in 1..(Len(cf.calls) - 1) :
        /\ IsCopy(cf.calls[k]) /\ cf.calls[k].ret /\ cf.calls[k].src = file.path
        /\ IsVerify(cf.calls[k + 1]) /\ cf.calls[k + 1].ret

\* C24: Application.copy_files reports completion (progress 100 with the
\* message that all files were copied) only when every file of the list was
\* copied and passed verification; the progress values shown during the run
\* never decrease and stay within 0..100.
C24_CompletionOnlyWhenAllCopied ==
    cf.called =>
        /\ cf.completed => \A i \in 1..Len(cf.files) : CopiedAndVerified(cf.files[i])
        /\ \A k \in 1..Len(cf.progress) : cf.progress[k] \in 0..100
        /\ \A k \in 1..(Len(cf.progress) - 1) : cf.progress[k] <= cf.progress[k + 1]


\* The log file was written when the application exited
LogFileWritten ==
    /\ pc = "closed"
    /\ hist.calls[Len(hist.calls)].op = "save_logs"
    /\ hist.calls[Len(hist.calls)].ok

InFile(e) == \E k \in 1..Len(hist.saved) : hist.saved[k] = e

\* The entries of logs occur in the file in the order they were logged
InFileInOrder(logs) ==
    \E pos \in [1..Len(logs) -> 1..Len(hist.saved)] :
        /\ \A i \in 1..Len(logs) : hist.saved[pos[i]] = logs[i]
        /\ \A i \in 1..(Len(logs) - 1) : pos[i] < pos[i + 1]

\* C25: the log file written when the application exits holds every entry
\* logged during the session, those of the Application and the error entries
\* (with their DISK_xxx / FILE_xxx codes) of DiskManager and FileHandler, in
\* the order they were logged.
C25_LogFileHoldsSession ==
    LogFileWritten =>
        /\ InFileInOrder(app_log)
        /\ InFileInOrder(dm_log)
        /\ InFileInOrder(fh_log)


\* The flags that make a check tool leave the device as it is: fsck.ext4 -n
\* opens the filesystem read-only, ntfsfix -n (--no-action) writes nothing
NoChangeFlags(tool) ==
    CASE tool = "fsck.ext4" -> {"-n"}
      [] tool = "ntfsfix" -> {"-n", "--no-action"}
      [] OTHER -> {}

RunsWithoutChange(c) == \E k \in 1..Len(c.flags) : c.flags[k] \in NoChangeFlags(c.tool)

\* C26: the filesystem check never modifies the disk under recovery: for
\* every filesystem type, every external command check_filesystem issues is
\* run in a read-only / no-change mode.
C26_CheckIsReadOnly ==
    dm.op = "check_filesystem" =>
        \A k \in 1..Len(dm.cmds) : RunsWithoutChange(dm.cmds[k])


\* Mount and unmount are called on the current disk, which is set
OnCurrentDisk == MountCalled => app.disk # NoDisk /\ app.disk = app.before.current_disk

\* The file list is refreshed only right after a successful mount
ListedOnlyAfterMount ==
    \A k \in 1..Len(hist.calls) :
        hist.calls[k].op = "list_files" =>
            /\ k > 1
            /\ hist.calls[k - 1].op = "mount"
            /\ hist.calls[k - 1].ok

\* A failed mount leaves the window's current disk, file list and selection
\* as they were
FailedMountChangesNothing ==
    (app.op = "mount_disk" /\ ~app.ret) => app.after = app.before

\* C27: in the event loop, mount and unmount are invoked only while a current
\* disk is selected; the file list is refreshed only immediately after a
\* successful mount of the current disk; a failed mount leaves current_disk,
\* the file list and the selection unchanged; and the unmount tool is run
\* only on a disk the application has mounted and not yet unmounted.
C27_MountLifecycle ==
    /\ OnCurrentDisk
    /\ ListedOnlyAfterMount
    /\ FailedMountChangesNothing
    /\ \A k \in 1..Len(hist.calls) :
          hist.calls[k].op = "umount" =>
              \E j \in 1..(k - 1) :
                  /\ Did(hist.calls[j], "mount", hist.calls[k].dev)
                  /\ \A m \in (j + 1)..(k - 1) :
                        ~Did(hist.calls[m], "umount", hist.calls[k].dev)


\* C28: in the event loop a -COPY- event starts copying only when at least
\* one file is selected and a destination path is given; otherwise an error
\* is shown, no file is copied, and the loop goes on to read the next event.
C28_CopyNeedsSelectionAndDestination ==
    app.op = "-COPY-" =>
        /\ app.ret <=> (app.files # <<>> /\ app.destination # <<>>)
        /\ ~app.ret =>
              /\ Len(app.shown) = 1
              /\ app.calls = <<>>
              /\ app.after = app.before
              /\ hist.events = app.at => pc = "loop"

\* C28 witness: with files selected and a destination given the copy started
C28_Witness ==
    /\ app.op = "-COPY-"
    /\ app.ret
    /\ Len(app.files) = 2
    /\ app.destination \in DestDirs

C28_WitnessRefused ==
    /\ app.op = "-COPY-"
    /\ ~app.ret
    /\ app.files # <<>>
    /\ app.destination = <<>>
    /\ hist.events = app.at


\* The disk whose files the file list shows is mounted: the last mount or
\* umount that succeeded on the current disk was a mount
CurrentDiskMounted ==
    \E j \in 1..Len(hist.calls) :
        /\ Did(hist.calls[j], "mount", win.current_disk.device_path)
        /\ \A m \in (j + 1)..Len(hist.calls) :
              ~Did(hist.calls[m], "umount", win.current_disk.device_path)

\* C29: at every point of the event loop window.selected_files is a list of
\* File records taken from the most recent file listing of the currently
\* mounted disk, and holds no entry of a disk that has since been unmounted
\* or replaced by another selected disk.
C29_SelectionIsListedFiles ==
    pc = "loop" =>
        \A i \in 1..Len(win.selected_files) :
            /\ win.selected_files[i].class = "File"
            /\ \E k \in 1..Len(win.file_tree) : win.selected_files[i] = win.file_tree[k]
            /\ CurrentDiskMounted
            /\ dirname(win.selected_files[i].path) = mount_point_of(win.current_disk)


\* The start-up detected the disks and the window is open
DisksDetected ==
    /\ pc = "loop"
    /\ win.window
    /\ \E j \in 1..Len(hist.calls) : hist.calls[j].op = "detect_disks" /\ hist.calls[j].ok

\* C30: after start-up the detected disks are shown in the window's disk
\* list and selecting one of them in the GUI makes it the current disk: the
\* key the layout defines for the disk list, the key update_disk_list writes
\* to and the event key the loop handles are the same, and that key is one
\* whose element produces events.
C30_DiskListKeysAgree ==
    DisksDetected =>
        /\ DiskTreeKey = UpdateDiskListKey
        /\ DiskTreeKey = DiskListEventKey
        /\ DiskListEventKey \in LayoutEvents
        /\ ElementValues(win, DiskTreeKey) = ElementValues(win, UpdateDiskListKey)

\* With the events of the layout only, no disk ever becomes the current disk
GuiNeverSelectsDisk == win.current_disk = NoDisk

====
